---------------------------- MODULE Spec2Model ----------------------------
(***************************************************************************)
(* A model of the catbird gateway (joshlacal/nest): the Redis session      *)
(* store with its three per-session records, get_valid_session and the     *)
(* manual token refresh, logout / revoke_session, the OAuth callback, the  *)
(* authentication middleware, the authenticated proxy with its DPoP-nonce  *)
(* retry and response cap, and the in-memory rate limiter.                 *)
(*                                                                         *)
(* Every request is a task that suspends at each await (Redis command or   *)
(* upstream HTTP request); one action of the model is the code between two *)
(* awaits that touch shared state.  The Authorization Server and the PDS   *)
(* are the environment: their answers are drawn from small sets.           *)
(***************************************************************************)
EXTENDS Integers, Sequences, FiniteSets, TLC

(***************************************************************************)
(* Bounds of the model.                                                    *)
(***************************************************************************)
MaxSessions == 2     \* the highest session id: 0 and 1 exist at the start
MaxGrants == 3       \* token sets the Authorization Server issues, the first included
MaxTicks == 1        \* clock ticks, of ExpiryBufferSeconds each
MaxOps == 2          \* requests served in a run
MaxChecks == 3       \* checks a rate limiter is asked for in a run
MaxAdvances == 2     \* times the rate limiter's clock moves in a run
MaxTtlRequests == 3  \* requests of a session while its records' expiry is followed
MaxTtlAdvances == 3  \* times the clock of the records' expiry moves
MaxCalls == 2        \* checks the concurrent tasks ask one rate limiter for

(***************************************************************************)
(* Program constants.                                                      *)
(***************************************************************************)
ExpiryBufferSeconds == 60      \* models/types.rs:38
DefaultExpiresIn == 3600       \* atproto_client.rs:1047, handlers/atproto.rs:200
MAX_RESPONSE_SIZE == 52428800  \* atproto_client.rs:21  (50 * 1024 * 1024)
STREAM_THRESHOLD == 1048576    \* atproto_client.rs:24  (1 * 1024 * 1024)

\* Option<T> is a sequence of length at most one.
None == <<>>
Some(x) == <<x>>
IsSome(o) == Len(o) = 1
Unwrap(o) == o[1]

(***************************************************************************)
(* URLs.  A URL string is modelled by what url::Url::parse makes of it:    *)
(* whether it parses, its scheme and its host (Host::Ipv4 / Host::Ipv6 /   *)
(* Host::Domain, or no host).  The empty string does not parse.            *)
(***************************************************************************)
NoHost == [kind |-> "none"]
Ipv4Host(a, b, c, d) == [kind |-> "ipv4", octets |-> <<a, b, c, d>>]
Ipv6Host(segs) == [kind |-> "ipv6", segments |-> segs]
DomainHost(labels) == [kind |-> "domain", labels |-> labels]
Url(scheme, host) == [parses |-> TRUE, scheme |-> scheme, host |-> host]
EmptyUrl == [parses |-> FALSE, scheme |-> "", host |-> NoHost]

\* Variant: the ranges of Ipv4Addr::is_private, is_loopback and is_link_local only
is_private_ipv4_std(o) ==
    \/ o[1] = 127
    \/ o[1] = 10
    \/ (o[1] = 172 /\ o[2] >= 16 /\ o[2] <= 31)
    \/ (o[1] = 192 /\ o[2] = 168)
    \/ (o[1] = 169 /\ o[2] = 254)

\* Ipv4Addr::is_loopback, is_link_local, is_broadcast, is_unspecified and the
\* explicit ranges of is_private_ipv4.
is_private_ipv4(o) ==
    \/ o[1] = 127
    \/ o[1] = 10
    \/ (o[1] = 172 /\ o[2] >= 16 /\ o[2] <= 31)
    \/ (o[1] = 192 /\ o[2] = 168)
    \/ (o[1] = 169 /\ o[2] = 254)
    \/ (o[1] = 255 /\ o[2] = 255 /\ o[3] = 255 /\ o[4] = 255)
    \/ (o[1] = 0 /\ o[2] = 0 /\ o[3] = 0 /\ o[4] = 0)
    \/ (o[1] = 192 /\ o[2] = 0 /\ o[3] = 2)
    \/ (o[1] = 198 /\ o[2] = 51 /\ o[3] = 100)
    \/ (o[1] = 203 /\ o[2] = 0 /\ o[3] = 113)
    \/ (o[1] = 100 /\ o[2] >= 64 /\ o[2] <= 127)

\* Ipv6Addr::to_ipv4_mapped: ::ffff:a.b.c.d
to_ipv4_mapped(s) ==
    IF s[1] = 0 /\ s[2] = 0 /\ s[3] = 0 /\ s[4] = 0 /\ s[5] = 0 /\ s[6] = 65535
    THEN Some(<<s[7] \div 256, s[7] % 256, s[8] \div 256, s[8] % 256>>)
    ELSE None

is_private_ipv6(s) ==
    \/ s = <<0, 0, 0, 0, 0, 0, 0, 1>>
    \/ s = <<0, 0, 0, 0, 0, 0, 0, 0>>
    \/ (s[1] \div 512) * 512 = 64512          \* (segments[0] & 0xfe00) == 0xfc00
    \/ (s[1] \div 64) * 64 = 65152            \* (segments[0] & 0xffc0) == 0xfe80
    \/ (IsSome(to_ipv4_mapped(s)) /\ is_private_ipv4(Unwrap(to_ipv4_mapped(s))))

\* Variant: only the name localhost itself
is_localhost_hostname_exact(labels) == labels = <<"localhost">>

\* A domain is its sequence of lower-cased labels: "a.local" is <<"a", "local">>.
is_localhost_hostname(labels) ==
    \/ labels = <<"localhost">>
    \/ labels = <<"localhost", "localdomain">>
    \/ (Len(labels) >= 2 /\ labels[Len(labels)] = "localhost")
    \/ (Len(labels) >= 2 /\ labels[Len(labels)] = "local")

\* validate_pds_url under a build (debug = cfg(debug_assertions)): TRUE is Ok(()),
\* FALSE is Err(BadRequest).
validate_pds_url_in(debug, url) ==
    IF ~url.parses THEN FALSE
    ELSE IF url.scheme # "http" /\ url.scheme # "https" THEN FALSE
    ELSE IF url.host.kind = "none" THEN FALSE
    ELSE IF url.host.kind = "ipv4" /\ is_private_ipv4(url.host.octets) THEN FALSE
    ELSE IF url.host.kind = "ipv6" /\ is_private_ipv6(url.host.segments) THEN FALSE
    ELSE IF url.host.kind = "domain" /\ is_localhost_hostname(url.host.labels)
              /\ debug /\ url.scheme = "http" THEN TRUE
    ELSE IF url.host.kind = "domain" /\ is_localhost_hostname(url.host.labels)
              /\ ~debug THEN FALSE
    ELSE url.scheme # "http"


(***************************************************************************)
(* State.                                                                  *)
(***************************************************************************)
VARIABLES
    ops,               \* requests started so far
    redis,             \* Redis: key -> Option(value)
    now,               \* Utc::now(), in seconds
    nextSid,           \* the next session id Uuid::new_v4() hands out
    asGrants,          \* Authorization Server: number of token sets issued
    asCurrent,         \* Authorization Server: the refresh tokens it accepts
    asLatest,          \* Authorization Server: session id -> its latest grant
    debug_assertions,  \* cfg(debug_assertions) of the build
    task,              \* request tasks: position and locals
    px,                \* one proxy_request call: position and locals
    rl,                \* a RateLimiter with its configuration and its clock
    ttl,               \* the expiry Redis holds for the records of one session
    ev                 \* a call of a function of the gateway: its input, its result

vars == <<ops, redis, now, nextSid, asGrants, asCurrent, asLatest, debug_assertions, task, px, rl,
          ttl, ev>>

RlKeys == {"key_a", "key_b"}         \* the keys the rate limiter is asked about
Tasks == {1, 2}                      \* two requests in flight at a time
LegacySid == 0                       \* a session saved before pds_url was stored
FirstSid == 1                        \* a session an earlier login created
SessionIds == 0..MaxSessions
Dids == {1}                          \* every device logs in as the same DID
TickSeconds == ExpiryBufferSeconds
ShortExpiresIn == ExpiryBufferSeconds + TickSeconds   \* expires_in of a short-lived token
LegacyToken == MaxGrants + 1
EmptyString == 0                     \* the token "" (String::default())

PdsUrl == Url("https", DomainHost(<<"pds", "example">>))
MetadataIpUrl == Url("http", Ipv4Host(169, 254, 169, 254))

\* What the Authorization Server may answer in a run: the resource servers a
\* token set can name, whether a login's token set carries a refresh token (and
\* with it an expiry), and whether a refresh rotates the refresh token (with
\* expires_in) or returns the bare access token (no refresh_token, no expires_in).
\* NarrowEnv is the ATProto server of the interleaving runs, WideEnv adds the
\* other answers in the runs that serve one request at a time.
NarrowEnv ==
    [auds |-> {PdsUrl}, refresh |-> {TRUE}, rotation |-> {TRUE}]
WideEnv ==
    [auds |-> {PdsUrl, MetadataIpUrl}, refresh |-> BOOLEAN, rotation |-> BOOLEAN]

\* Variant: only the scheme and the host's presence are looked at
validate_pds_url_scheme_only(url) ==
    url.parses /\ url.scheme \in {"http", "https"} /\ url.host.kind # "none"

validate_pds_url(url) == validate_pds_url_in(debug_assertions, url)

(***************************************************************************)
(* Storage key schema: "{prefix}{kind}:{id}".  A session id is a UUID and  *)
(* a DID starts with "did:", so the two id spaces never meet.              *)
(***************************************************************************)
SessionKey(kind, id) == [kind |-> kind, ns |-> "session", id |-> id]
CatbirdSessionKey(id) == SessionKey("catbird_session", id)
DpopKeyKey(id) == SessionKey("dpop_key", id)
OAuthSessionKey(id) == SessionKey("oauth_session", id)
\* RedisSessionStore::key_for: atrium's own record, keyed by DID
DidSessionKey(did) == [kind |-> "oauth_session", ns |-> "did", id |-> did]

PerSessionKeys(id) == {CatbirdSessionKey(id), DpopKeyKey(id), OAuthSessionKey(id)}
Keys == UNION {PerSessionKeys(id) : id \in SessionIds} \cup {DidSessionKey(d) : d \in Dids}

RedisSet(store, key, value) == [store EXCEPT ![key] = Some(value)]
RedisDel(store, key) == [store EXCEPT ![key] = None]

(***************************************************************************)
(* Records.                                                                *)
(***************************************************************************)
TokenSet(access, refresh, aud, sub, expires_at) ==
    [access_token |-> access, refresh_token |-> refresh, aud |-> aud, sub |-> sub,
     expires_at |-> expires_at]
OAuthSessionRecord(dpop, token_set) == [dpop_key |-> dpop, token_set |-> token_set]
DPoPKeyPair(k) == [public_jwk |-> k, private_key_bytes |-> k]

\* Variant: expired only strictly after the 60 s mark
is_access_token_expired_strict(session, t) ==
    t + ExpiryBufferSeconds > session.access_token_expires_at

\* CatbirdSession::is_access_token_expired at instant t
is_access_token_expired(session, t) ==
    t + ExpiryBufferSeconds >= session.access_token_expires_at

\* get_valid_session: the condition under which it refreshes
needs_refresh(session, t) ==
    is_access_token_expired(session, t) \/ session.pds_url = EmptyUrl

\* Variant: the OAuth data of a refresh is the DID-keyed record
refresh_oauth_session_key_by_did(session) == DidSessionKey(session.did)

\* refresh_session_tokens: the key it loads and rewrites the OAuth data under
refresh_oauth_session_key(session) == OAuthSessionKey(session.id)

\* save_session: the key of a GatewaySession
save_session_key(session) == CatbirdSessionKey(session.id)

\* Variant: every refusal of the token endpoint counts as invalid_grant
is_invalid_grant_any(text) == TRUE

\* body.contains("invalid_grant") || body.contains("InvalidGrant")
is_invalid_grant(text) == text \in {"invalid_grant", "InvalidGrant"}

is_success(status) == status >= 200 /\ status <= 299

\* AppError::into_response: the HTTP status an error is answered with
into_response_status(error) ==
    CASE error = "NotFound" -> 404
      [] error \in {"BadRequest", "OAuth"} -> 400
      [] error \in {"Unauthorized", "SessionExpired", "InvalidSession", "TokenRefresh"} -> 401
      [] error = "HttpClient" -> 502
      [] error \in {"Redis", "Json", "Config", "Crypto", "Internal"} -> 500

\* The errors a handler can return: the variant, the text it carries (the
\* detail of a wrapped error for Redis, HttpClient and Json) and the status
\* of Upstream
ErrorTexts == {"m1", "m2", "m3"}
UpstreamStatuses == {0, 99, 200, 404, 429, 500, 999, 1000}
AppErrors ==
    {[kind |-> k, msg |-> m, status |-> 0] :
        k \in {"NotFound", "BadRequest", "Unauthorized", "OAuth", "TokenRefresh", "Redis",
               "HttpClient", "Json", "Config", "Crypto", "Internal"}, m \in ErrorTexts}
    \cup {[kind |-> "Upstream", msg |-> m, status |-> n] :
            m \in ErrorTexts, n \in UpstreamStatuses}
    \cup {[kind |-> k, msg |-> "", status |-> 0] : k \in {"SessionExpired", "InvalidSession"}}

\* StatusCode::from_u16
from_u16(n) == IF 100 <= n /\ n <= 999 THEN Some(n) ELSE None

\* AppError::into_response: the status and the "message" of the JSON body
into_response(e) ==
    [status |-> IF e.kind = "Upstream"
                THEN IF IsSome(from_u16(e.status)) THEN Unwrap(from_u16(e.status)) ELSE 502
                ELSE into_response_status(e.kind),
     message |->
       CASE e.kind \in {"NotFound", "BadRequest", "Unauthorized", "OAuth", "Upstream",
                        "TokenRefresh", "Internal"} -> e.msg
         [] e.kind = "SessionExpired" -> "Your session has expired. Please log in again."
         [] e.kind = "InvalidSession" -> "Invalid session. Please log in again."
         [] e.kind = "Redis" -> "An internal error occurred"
         [] e.kind = "HttpClient" -> "Failed to communicate with upstream server"
         [] e.kind = "Json" -> "Failed to process response"
         [] e.kind = "Config" -> "Server configuration error"
         [] e.kind = "Crypto" -> "Cryptographic operation failed"]

(***************************************************************************)
(* Tasks.                                                                  *)
(***************************************************************************)
IdleTask ==
    [pc |-> "idle", op |-> "none", sid |-> 0,
     stored |-> None,      \* the GatewaySession as get_session returned it
     session |-> None,     \* the local `session`
     oauth |-> None,       \* the local `oauth_session`
     gets |-> 0,           \* metadata GETs sent
     posts |-> <<>>,       \* POSTs sent to the token / revocation endpoint
     grant |-> None,       \* the parsed token response of a successful refresh
     refreshed |-> FALSE,  \* refresh_session_tokens returned Ok
     revoke |-> "",        \* what revoke_session returned: "ok" or "err"
     touched |-> {},       \* Redis keys read or written so far
     ran |-> FALSE,        \* the middleware called next.run(req)
     attached |-> None,    \* the session in the request's extensions
     status |-> 0, error |-> ""]

\* The request is answered: its locals are dropped, what it answered is kept
Finish(t, status, error) ==
    [task EXCEPT ![t] = [IdleTask EXCEPT !.pc = "done", !.op = task[t].op, !.sid = task[t].sid,
                                         !.refreshed = task[t].refreshed,
                                         !.ran = task[t].ran,
                                         !.status = status, !.error = error]]

\* Variant: every middleware goes on without a session
is_soft_always(op) == TRUE

\* optional_auth_middleware never fails; auth_middleware guards the other routes
is_soft(op) == op = "optional"

\* req.extensions_mut().insert(session) and next.run(req)
RunHandler(t, tk, session) ==
    [tk EXCEPT ![t].pc = "handler", ![t].ran = TRUE, ![t].attached = session]

\* No session id, or get_valid_session returned Err: auth_middleware answers
\* 401, optional_auth_middleware runs the handler with no session attached
Unauthenticated(t, error) ==
    IF is_soft(task[t].op)
    THEN RunHandler(t, [Finish(t, 0, error) EXCEPT ![t].pc = "handler"], None)
    ELSE Finish(t, 401, error)

Touch(t, tk, keys) == [tk EXCEPT ![t].touched = @ \cup keys]
\* RateLimitState before its configuration is given: RateLimiter::new() is an
\* empty map.  Instants are in milliseconds since the cleanup task started.
NewRateLimiter ==
    [pc |-> "new",
     config |-> [max_requests |-> 0, window |-> 0],
     entries |-> [k \in RlKeys |-> None],   \* key -> Option(RateLimitEntry)
     now |-> 0,                             \* Instant::now()
     next_cleanup |-> 0,                    \* when interval.tick() fires next
     advances |-> 0,                        \* times the clock has moved
     log |-> <<>>]                          \* the checks made, with their answers

\* The three record kinds of a session id
RecordKinds == {"catbird_session", "dpop_key", "oauth_session"}

\* Redis before the login of the session: no record, no expiry.  Instants are
\* in seconds.
NoExpiry ==
    [pc |-> "none",
     clock |-> 0,
     deadline |-> [k \in RecordKinds |-> None],   \* kind -> Option(instant the key expires)
     dpop |-> None,                               \* the key pair stored in dpop_key
     advances |-> 0, requests |-> 0]

\* proxy_request before it is called
IdleProxy ==
    [pc |-> "idle", session |-> None, method |-> "", body |-> None,
     client_headers |-> {},   \* names of the headers of the client's request
     lexicon |-> <<>>,     \* the lexicon of the XRPC path, when proxy_xrpc made the call
     route |-> "",         \* "mls" or "pds": the service proxy_xrpc chose
     mls |-> [service_url |-> None, gateway_did |-> None],   \* config.mls
     sent |-> <<>>,        \* the requests sent to the PDS, in order
     first |-> None,       \* the response to attempt 1
     retried |-> FALSE,    \* proxy_request took the nonce-retry branch
     final |-> None,       \* the response to the attempt that ended the call
     taken |-> 0,          \* body chunks of that response the gateway read
     result |-> None]      \* what proxy_request returned

\* A session an older gateway version saved: no pds_url
LegacySession ==
    [id |-> LegacySid, did |-> 1, handle |-> 1, pds_url |-> EmptyUrl,
     access_token |-> LegacyToken, refresh_token |-> LegacyToken,
     access_token_expires_at |-> DefaultExpiresIn, created_at |-> 0, last_used_at |-> 0,
     dpop_jkt |-> Some("dpop")]

\* The CatbirdSession oauth_callback builds from a token set at instant t
CallbackSession(sid, ts, t) ==
    [id |-> sid, did |-> ts.sub, handle |-> ts.sub, pds_url |-> ts.aud,
     access_token |-> ts.access_token,
     refresh_token |-> IF IsSome(ts.refresh_token) THEN Unwrap(ts.refresh_token)
                       ELSE EmptyString,
     access_token_expires_at |-> IF IsSome(ts.expires_at) THEN Unwrap(ts.expires_at)
                                 ELSE t + DefaultExpiresIn,
     created_at |-> t, last_used_at |-> t, dpop_jkt |-> Some("dpop")]

\* The token set of the login that created session FirstSid
FirstTokenSet == TokenSet(1, Some(1), PdsUrl, 1, Some(ShortExpiresIn))

\* Redis as the gateway finds it: the legacy session, and the three records of
\* session FirstSid as its login at instant 0 left them.
InitialRedis ==
    [k \in Keys |->
       IF k = CatbirdSessionKey(LegacySid) THEN Some(LegacySession)
       ELSE IF k = DpopKeyKey(LegacySid) THEN Some(DPoPKeyPair(LegacyToken))
       ELSE IF k = OAuthSessionKey(LegacySid)
       THEN Some(OAuthSessionRecord(LegacyToken,
              TokenSet(LegacyToken, Some(LegacyToken), EmptyUrl, 1, None)))
       ELSE IF k = CatbirdSessionKey(FirstSid) THEN Some(CallbackSession(FirstSid, FirstTokenSet, 0))
       ELSE IF k = DpopKeyKey(FirstSid) THEN Some(DPoPKeyPair(1))
       ELSE IF k \in {OAuthSessionKey(FirstSid), DidSessionKey(1)}
       THEN Some(OAuthSessionRecord(1, FirstTokenSet))
       ELSE None]

\* No function is being called
NoCall == [pc |-> "none"]

\* The gateway after start-up
InitGateway ==
    /\ redis = InitialRedis
    /\ now = 0
    /\ ops = 0
    /\ nextSid = FirstSid + 1
    /\ asGrants = 1
    /\ asCurrent = {LegacyToken, 1}
    /\ asLatest = [s \in SessionIds |-> IF s = FirstSid THEN 1 ELSE 0]
    /\ debug_assertions = FALSE
    /\ task = [t \in Tasks |-> IdleTask]
    /\ px = IdleProxy
    /\ rl = NewRateLimiter
    /\ ttl = NoExpiry

Init == InitGateway /\ ev = NoCall

\* A request arrives: GET /auth/session, POST /auth/logout (both behind
\* auth_middleware) or GET /auth/callback.
Free(t) == task[t].pc \in {"idle", "done"}

\* The runtime hands the request to the first task that is free.
Start(t, limit) ==
    /\ Free(t)
    /\ \A u \in Tasks : u < t => ~Free(u)
    /\ ops < limit
    /\ ops' = ops + 1
    /\ \/ \E op \in {"session", "logout"}, s \in SessionIds :
             task' = [task EXCEPT ![t] = [IdleTask EXCEPT !.pc = "gvs_get", !.op = op, !.sid = s]]
       \/ /\ nextSid <= MaxSessions
          /\ task' = [task EXCEPT ![t] = [IdleTask EXCEPT !.pc = "cb_exchange", !.op = "callback"]]
    /\ UNCHANGED <<px, redis, now, nextSid, asGrants, asCurrent, asLatest, debug_assertions, rl, ttl, ev>>

\* A request without a session id: extract_session_id returns None
MissingId == -1

\* A request arrives at a route behind auth_middleware ("protected") or behind
\* optional_auth_middleware ("optional"), with a session id or without one.
StartAuth(t) ==
    /\ Free(t)
    /\ ops < MaxOps
    /\ ops' = ops + 1
    /\ \E op \in {"protected", "optional"}, s \in SessionIds \cup {MissingId} :
         task' = [task EXCEPT ![t] = [IdleTask EXCEPT !.pc = "extract", !.op = op, !.sid = s]]
    /\ UNCHANGED <<px, redis, now, nextSid, asGrants, asCurrent, asLatest, debug_assertions, rl, ttl, ev>>

\* extract_session_id(&req).ok_or(StatusCode::UNAUTHORIZED)?
MwExtract(t) ==
    /\ task[t].pc = "extract"
    /\ task' = IF task[t].sid = MissingId
               THEN Unauthenticated(t, "")
               ELSE [task EXCEPT ![t].pc = "gvs_get"]
    /\ UNCHANGED <<px, ops, redis, now, nextSid, asGrants, asCurrent, asLatest, debug_assertions, rl, ttl, ev>>

\* The handler behind the middleware answers
Handler(t) ==
    /\ task[t].pc = "handler"
    /\ task' = Finish(t, 200, task[t].error)
    /\ UNCHANGED <<px, ops, redis, now, nextSid, asGrants, asCurrent, asLatest, debug_assertions, rl, ttl, ev>>

Tick ==
    /\ now < MaxTicks * TickSeconds
    /\ now' = now + TickSeconds
    /\ UNCHANGED <<px, ops, redis, nextSid, asGrants, asCurrent, asLatest, debug_assertions, rl, task, ttl, ev>>

\* revoke_session returned Err: logout logs it and goes on with its own cleanup
RevokeFailed(t, tk) == [tk EXCEPT ![t].revoke = "err", ![t].posts = <<>>, ![t].pc = "lo_del_dpop"]

\* logout enters revoke_session: validate_pds_url, then get_revocation_endpoint
\* (two metadata GETs, either of which can fail)
RvStart(t, tk) ==
    IF ~validate_pds_url(Unwrap(task[t].session).pds_url)
    THEN task' = RevokeFailed(t, tk)
    ELSE \/ task' = RevokeFailed(t, tk)
         \/ task' = [tk EXCEPT ![t].pc = "rv_post1"]

(***************************************************************************)
(* get_valid_session                                                       *)
(***************************************************************************)
\* get_session, last_used_at = now, and the decision to refresh
GvsGet(t) ==
    /\ task[t].pc = "gvs_get"
    /\ LET key == CatbirdSessionKey(task[t].sid)
           tk == Touch(t, task, {key})
       IN IF redis[key] = None
          THEN task' = Unauthenticated(t, "InvalidSession")
          ELSE LET stored == Unwrap(redis[key])
                   session == [stored EXCEPT !.last_used_at = now]
               IN task' = [tk EXCEPT ![t].stored = Some(stored),
                                     ![t].session = Some(session),
                                     ![t].pc = IF needs_refresh(session, now)
                                               THEN "rf_load" ELSE "gvs_save"]
    /\ UNCHANGED <<px, ops, redis, now, nextSid, asGrants, asCurrent, asLatest, debug_assertions, rl, ttl, ev>>

\* save_session, then the middleware runs the handler
GvsSave(t) ==
    /\ task[t].pc = "gvs_save"
    /\ LET session == Unwrap(task[t].session)
           key == save_session_key(session)
           tk == Touch(t, task, {key})
       IN /\ redis' = RedisSet(redis, key, session)
          /\ IF task[t].op = "logout"
             THEN RvStart(t, tk)
             ELSE IF task[t].op \in {"protected", "optional"}
             THEN task' = RunHandler(t, tk, Some(session))
             ELSE task' = Finish(t, 200, "")
    /\ UNCHANGED <<px, ops, now, nextSid, asGrants, asCurrent, asLatest, debug_assertions, rl, ttl, ev>>

(***************************************************************************)
(* The Authorization Server's token endpoint.  A response is               *)
(* [status, nonce, text, access_token, refresh_token, expires_in]: the     *)
(* status (0: the request failed in transport), the DPoP-Nonce header, the *)
(* body text, and the fields of a JSON token response.  It issues a new    *)
(* token set only for a refresh token it accepts, rotating the refresh     *)
(* token when it returns one, and answers invalid_grant for one it does    *)
(* not accept.                                                             *)
(***************************************************************************)
Response(status, nonce, text) ==
    [status |-> status, nonce |-> nonce, text |-> text,
     access_token |-> None, refresh_token |-> None, expires_in |-> None]

TransportError == Response(0, None, "")

\* Answers that change nothing at the Authorization Server
RefusalResponses(accepted) ==
    {TransportError,
     Response(400, Some("n1"), "use_dpop_nonce"),
     Response(401, Some("n1"), "use_dpop_nonce"),
     Response(401, None, "invalid_client"),
     Response(500, Some("n1"), "server_error"),
     Response(200, None, "{}")}
    \cup (IF accepted THEN {}
          ELSE {Response(400, None, "invalid_grant"),
                Response(400, Some("n1"), "invalid_grant"),
                Response(400, None, "InvalidGrant")})

\* Token responses carrying grant g
GrantResponses(env, g) ==
    {[status |-> 200, nonce |-> None, text |-> "tokens",
      access_token |-> Some(g), refresh_token |-> IF rot THEN Some(g) ELSE None,
      expires_in |-> IF rot THEN Some(ShortExpiresIn) ELSE None] :
        rot \in env.rotation}

\* POST to the token endpoint with refresh token rt for session sid, answered resp
TokenEndpoint(env, sid, rt, resp) ==
    \/ /\ resp \in RefusalResponses(rt \in asCurrent)
       /\ UNCHANGED <<asGrants, asCurrent, asLatest>>
    \/ /\ rt \in asCurrent
       /\ asGrants < MaxGrants
       /\ resp \in GrantResponses(env, asGrants + 1)
       /\ asGrants' = asGrants + 1
       /\ asCurrent' = IF IsSome(resp.refresh_token)
                       THEN (asCurrent \ {rt}) \cup {asGrants + 1}
                       ELSE asCurrent
       /\ asLatest' = [asLatest EXCEPT ![sid] = asGrants + 1]

\* The Authorization Server stops accepting a refresh token (the user revoked
\* the app's access, or the token's lifetime ended).
AsInvalidate ==
    /\ \E rt \in asCurrent : asCurrent' = asCurrent \ {rt}
    /\ UNCHANGED <<px, ops, redis, now, nextSid, asGrants, asLatest, debug_assertions, rl, task, ttl, ev>>

(***************************************************************************)
(* refresh_session_tokens                                                  *)
(***************************************************************************)
\* Load oauth_session:{id} and take its refresh token, then get_token_endpoint:
\* GET {pds}/.well-known/oauth-protected-resource and GET
\* {as}/.well-known/oauth-authorization-server.  A pds_url that is no absolute URL
\* fails when the request is built; either GET can fail.
RfLoad(t) ==
    /\ task[t].pc = "rf_load"
    /\ LET session == Unwrap(task[t].session)
           key == refresh_oauth_session_key(session)
           tk == Touch(t, task, {key})
       IN IF redis[key] = None
          THEN task' = Unauthenticated(t, "Internal")
          ELSE IF Unwrap(redis[key]).token_set.refresh_token = None
          THEN task' = Unauthenticated(t, "OAuth")
          ELSE IF ~session.pds_url.parses
          THEN task' = Unauthenticated(t, "HttpClient")
          ELSE \/ \E e \in {"HttpClient", "Internal"} : task' = Unauthenticated(t, e)
               \/ task' = [tk EXCEPT ![t].oauth = redis[key], ![t].gets = 2,
                                     ![t].pc = "rf_post1"]
    /\ UNCHANGED <<px, ops, redis, now, nextSid, asGrants, asCurrent, asLatest, debug_assertions, rl, ttl, ev>>

\* A POST to the token or revocation endpoint: the DPoP proof's nonce and ath
\* claims, the client assertion's jti and the token in the form body (refresh_token=
\* or token=), with the answer.
TokenPost(nonce, jti, token, resp) ==
    [nonce |-> nonce, jti |-> jti, token |-> token, ath |-> None,
     status |-> resp.status, resp_nonce |-> resp.nonce, text |-> resp.text]

\* Uuid::new_v4() of generate_client_assertion: a jti no earlier request carries
fresh_jti(posts) == Len(posts) + 1

\* Variant: retry on a DPoP-Nonce header whatever the status
refresh_wants_retry_any_status(resp) == IsSome(resp.nonce)

\* The nonce retry of refresh_session_tokens: status 400 or 401 with a DPoP-Nonce header
refresh_wants_retry(resp) == resp.status \in {400, 401} /\ IsSome(resp.nonce)

\* Variant: the refresh token is never replaced
new_refresh_token_kept(returned, previous) == previous

\* token_response["refresh_token"], defaulting to the refresh token the request sent
new_refresh_token(returned, previous) ==
    IF IsSome(returned) THEN Unwrap(returned) ELSE previous

\* Utc::now() + expires_in, expires_in defaulting to 3600
new_expires_at(t, expires_in) ==
    t + (IF IsSome(expires_in) THEN Unwrap(expires_in) ELSE DefaultExpiresIn)

\* Variant: a nonce challenge is answered with another POST, every time
AfterTokenResponse_retrying(t, tk, resp) ==
    IF refresh_wants_retry(resp)
    THEN [tk EXCEPT ![t].pc = "rf_post2"]
    ELSE IF resp.status = 0
    THEN Unauthenticated(t, "HttpClient")
    ELSE IF ~is_success(resp.status)
    THEN IF is_invalid_grant(resp.text)
         THEN [tk EXCEPT ![t].pc = "clr_session"]
         ELSE Unauthenticated(t, "OAuth")
    ELSE IF resp.access_token = None
    THEN Unauthenticated(t, "OAuth")
    ELSE [tk EXCEPT ![t].pc = "rf_write",
                    ![t].grant = Some(
                       [access_token |-> Unwrap(resp.access_token),
                        refresh_token |-> resp.refresh_token,
                        expires_at |-> new_expires_at(now, resp.expires_in)])]

\* What refresh_session_tokens does with the final response
AfterTokenResponse(t, tk, resp) ==
    IF resp.status = 0
    THEN Unauthenticated(t, "HttpClient")
    ELSE IF ~is_success(resp.status)
    THEN IF is_invalid_grant(resp.text)
         THEN [tk EXCEPT ![t].pc = "clr_session"]
         ELSE Unauthenticated(t, "OAuth")
    ELSE IF resp.access_token = None
    THEN Unauthenticated(t, "OAuth")
    ELSE [tk EXCEPT ![t].pc = "rf_write",
                    ![t].grant = Some(
                       [access_token |-> Unwrap(resp.access_token),
                        refresh_token |-> resp.refresh_token,
                        expires_at |-> new_expires_at(now, resp.expires_in)])]

\* First POST: auth-server DPoP proof without nonce
RfPost1(t, env) ==
    /\ task[t].pc = "rf_post1"
    /\ LET dkey == DpopKeyKey(Unwrap(task[t].session).id)
           tk == Touch(t, task, {dkey})
           rt == Unwrap(Unwrap(task[t].oauth).token_set.refresh_token)
       IN IF redis[dkey] = None
          THEN /\ task' = Unauthenticated(t, "Internal")
               /\ UNCHANGED <<asGrants, asCurrent, asLatest>>
          ELSE \E resp \in RefusalResponses(rt \in asCurrent) \cup GrantResponses(env, asGrants + 1) :
                 /\ TokenEndpoint(env, task[t].sid, rt, resp)
                 /\ LET sent == [tk EXCEPT ![t].posts =
                                   Append(@, TokenPost(None, fresh_jti(@), rt, resp))]
                    IN task' = IF refresh_wants_retry(resp)
                               THEN [sent EXCEPT ![t].pc = "rf_post2"]
                               ELSE AfterTokenResponse(t, sent, resp)
    /\ UNCHANGED <<px, ops, redis, now, nextSid, debug_assertions, rl, ttl, ev>>

\* Second POST: the proof carries the nonce, the client assertion is regenerated
RfPost2(t, env) ==
    /\ task[t].pc = "rf_post2"
    /\ LET dkey == DpopKeyKey(Unwrap(task[t].session).id)
           tk == Touch(t, task, {dkey})
           rt == Unwrap(Unwrap(task[t].oauth).token_set.refresh_token)
           nonce == task[t].posts[1].resp_nonce
       IN IF redis[dkey] = None
          THEN /\ task' = Unauthenticated(t, "Internal")
               /\ UNCHANGED <<asGrants, asCurrent, asLatest>>
          ELSE \E resp \in RefusalResponses(rt \in asCurrent) \cup GrantResponses(env, asGrants + 1) :
                 /\ TokenEndpoint(env, task[t].sid, rt, resp)
                 /\ LET sent == [tk EXCEPT ![t].posts =
                                   Append(@, TokenPost(nonce, fresh_jti(@), rt, resp))]
                    IN task' = AfterTokenResponse(t, sent, resp)
    /\ UNCHANGED <<px, ops, redis, now, nextSid, debug_assertions, rl, ttl, ev>>

\* Success: rewrite oauth_session:{id} and build the refreshed CatbirdSession
RfWrite(t) ==
    /\ task[t].pc = "rf_write"
    /\ LET session == Unwrap(task[t].session)
           oauth == Unwrap(task[t].oauth)
           grant == Unwrap(task[t].grant)
           key == refresh_oauth_session_key(session)
           rt == new_refresh_token(grant.refresh_token, Unwrap(oauth.token_set.refresh_token))
           updated == [oauth EXCEPT !.token_set.access_token = grant.access_token,
                                    !.token_set.refresh_token = Some(rt),
                                    !.token_set.expires_at = Some(grant.expires_at)]
           refreshed == [session EXCEPT !.access_token = grant.access_token,
                                        !.refresh_token = rt,
                                        !.access_token_expires_at = grant.expires_at,
                                        !.last_used_at = now]
           tk == Touch(t, task, {key})
       IN /\ redis' = RedisSet(redis, key, updated)
          /\ task' = [tk EXCEPT ![t].session = Some(refreshed), ![t].refreshed = TRUE,
                                ![t].posts = <<>>, ![t].pc = "gvs_save"]
    /\ UNCHANGED <<px, ops, now, nextSid, asGrants, asCurrent, asLatest, debug_assertions, rl, ttl, ev>>

\* clear_session_data after invalid_grant: three DELs, then TokenRefresh
ClearSession(t) ==
    /\ task[t].pc = "clr_session"
    /\ LET key == CatbirdSessionKey(Unwrap(task[t].session).id)
       IN /\ redis' = RedisDel(redis, key)
          /\ task' = [Touch(t, task, {key}) EXCEPT ![t].posts = <<>>, ![t].pc = "clr_dpop"]
    /\ UNCHANGED <<px, ops, now, nextSid, asGrants, asCurrent, asLatest, debug_assertions, rl, ttl, ev>>

ClearDpop(t) ==
    /\ task[t].pc = "clr_dpop"
    /\ LET key == DpopKeyKey(Unwrap(task[t].session).id)
       IN /\ redis' = RedisDel(redis, key)
          /\ task' = [Touch(t, task, {key}) EXCEPT ![t].pc = "clr_oauth"]
    /\ UNCHANGED <<px, ops, now, nextSid, asGrants, asCurrent, asLatest, debug_assertions, rl, ttl, ev>>

ClearOAuth(t) ==
    /\ task[t].pc = "clr_oauth"
    /\ LET key == OAuthSessionKey(Unwrap(task[t].session).id)
       IN /\ redis' = RedisDel(redis, key)
          /\ task' = Unauthenticated(t, "TokenRefresh")
    /\ UNCHANGED <<px, ops, now, nextSid, asGrants, asCurrent, asLatest, debug_assertions, rl, ttl, ev>>

(***************************************************************************)
(* logout and revoke_session                                               *)
(***************************************************************************)
\* Answers of the revocation endpoint
RevokeResponses ==
    {TransportError,
     Response(200, None, ""),
     Response(400, Some("n1"), "use_dpop_nonce"),
     Response(401, Some("n1"), "use_dpop_nonce"),
     Response(500, None, "server_error")}

\* POST to the revocation endpoint: a 2xx answer means the token is revoked
RevocationEndpoint(token, resp) ==
    /\ resp \in RevokeResponses
    /\ asCurrent' = IF is_success(resp.status) THEN asCurrent \ {token} ELSE asCurrent
    /\ UNCHANGED <<asGrants, asLatest>>

\* The nonce retry of revoke_session: status 400 with a DPoP-Nonce header
revoke_wants_retry(resp) == resp.status = 400 /\ IsSome(resp.nonce)

\* Variant: the access token is the one revoked
token_to_revoke_access(session) == session.access_token

\* RFC 7009: prefer the refresh token
token_to_revoke(session) ==
    IF session.refresh_token # EmptyString THEN session.refresh_token
    ELSE session.access_token

RvPost1(t) ==
    /\ task[t].pc = "rv_post1"
    /\ LET session == Unwrap(task[t].session)
           dkey == DpopKeyKey(session.id)
           tk == Touch(t, task, {dkey})
       IN IF redis[dkey] = None
          THEN /\ task' = RevokeFailed(t, tk)
               /\ UNCHANGED <<asGrants, asCurrent, asLatest>>
          ELSE \E resp \in RevokeResponses :
                 /\ RevocationEndpoint(token_to_revoke(session), resp)
                 /\ LET sent == [tk EXCEPT ![t].posts = Append(@,
                                   TokenPost(None, fresh_jti(@), token_to_revoke(session), resp))]
                    IN task' = IF resp.status = 0 THEN RevokeFailed(t, sent)
                               ELSE IF revoke_wants_retry(resp)
                               THEN [sent EXCEPT ![t].pc = "rv_post2"]
                               ELSE [sent EXCEPT ![t].pc = "rv_delete"]
    /\ UNCHANGED <<px, ops, redis, now, nextSid, debug_assertions, rl, ttl, ev>>

RvPost2(t) ==
    /\ task[t].pc = "rv_post2"
    /\ LET session == Unwrap(task[t].session)
           dkey == DpopKeyKey(session.id)
           tk == Touch(t, task, {dkey})
           nonce == task[t].posts[1].resp_nonce
       IN IF redis[dkey] = None
          THEN /\ task' = RevokeFailed(t, tk)
               /\ UNCHANGED <<asGrants, asCurrent, asLatest>>
          ELSE \E resp \in RevokeResponses :
                 /\ RevocationEndpoint(token_to_revoke(session), resp)
                 /\ LET sent == [tk EXCEPT ![t].posts = Append(@,
                                   TokenPost(nonce, fresh_jti(@), token_to_revoke(session), resp))]
                    IN task' = IF resp.status = 0 THEN RevokeFailed(t, sent)
                               ELSE [sent EXCEPT ![t].pc = "rv_delete"]
    /\ UNCHANGED <<px, ops, redis, now, nextSid, debug_assertions, rl, ttl, ev>>

\* delete_session: the one record revoke_session deletes, whatever the status was
RvDelete(t) ==
    /\ task[t].pc = "rv_delete"
    /\ LET key == CatbirdSessionKey(Unwrap(task[t].session).id)
       IN /\ redis' = RedisDel(redis, key)
          /\ task' = [Touch(t, task, {key}) EXCEPT ![t].revoke = "ok", ![t].posts = <<>>,
                                                   ![t].pc = "lo_del_dpop"]
    /\ UNCHANGED <<px, ops, now, nextSid, asGrants, asCurrent, asLatest, debug_assertions, rl, ttl, ev>>

\* logout's own cleanup: DEL dpop_key:{id}, DEL oauth_session:{id}, then 200
LogoutDelDpop(t) ==
    /\ task[t].pc = "lo_del_dpop"
    /\ LET key == DpopKeyKey(Unwrap(task[t].session).id)
       IN /\ redis' = RedisDel(redis, key)
          /\ task' = [Touch(t, task, {key}) EXCEPT ![t].pc = "lo_del_oauth"]
    /\ UNCHANGED <<px, ops, now, nextSid, asGrants, asCurrent, asLatest, debug_assertions, rl, ttl, ev>>

LogoutDelOAuth(t) ==
    /\ task[t].pc = "lo_del_oauth"
    /\ LET key == OAuthSessionKey(Unwrap(task[t].session).id)
       IN /\ redis' = RedisDel(redis, key)
          /\ task' = Finish(t, 200, "")
    /\ UNCHANGED <<px, ops, now, nextSid, asGrants, asCurrent, asLatest, debug_assertions, rl, ttl, ev>>

(***************************************************************************)
(* oauth_callback                                                          *)
(***************************************************************************)
\* oauth_client.callback: atrium exchanges the code and stores the Session under
\* the DID; the handler then draws the session id.
CbExchange(t, env) ==
    /\ task[t].pc = "cb_exchange"
    /\ \/ /\ task' = Finish(t, 400, "OAuth")
          /\ UNCHANGED <<redis, nextSid, asGrants, asCurrent, asLatest>>
       \/ /\ asGrants < MaxGrants
          /\ nextSid <= MaxSessions
          /\ \E did \in Dids, aud \in env.auds, withRefresh \in env.refresh :
               LET g == asGrants + 1
                   exp == IF withRefresh THEN Some(now + ShortExpiresIn) ELSE None
                   ts == TokenSet(g, IF withRefresh THEN Some(g) ELSE None, aud, did, exp)
                   key == DidSessionKey(did)
               IN /\ redis' = RedisSet(redis, key, OAuthSessionRecord(g, ts))
                  /\ asGrants' = g
                  /\ asCurrent' = IF withRefresh THEN asCurrent \cup {g} ELSE asCurrent
                  /\ asLatest' = [asLatest EXCEPT ![nextSid] = g]
                  /\ nextSid' = nextSid + 1
                  /\ task' = [Touch(t, task, {key}) EXCEPT ![t].sid = nextSid,
                                 ![t].session = Some([did |-> did]), ![t].pc = "cb_read"]
    /\ UNCHANGED <<px, ops, now, debug_assertions, rl, ttl, ev>>

\* session_store.get(did): the token set and DPoP key atrium stored
CbRead(t) ==
    /\ task[t].pc = "cb_read"
    /\ LET key == DidSessionKey(Unwrap(task[t].session).did)
           tk == Touch(t, task, {key})
       IN IF redis[key] = None
          THEN task' = Finish(t, 500, "Internal")
          ELSE task' = [tk EXCEPT ![t].oauth = redis[key], ![t].pc = "cb_dpop"]
    /\ UNCHANGED <<px, ops, redis, now, nextSid, asGrants, asCurrent, asLatest, debug_assertions, rl, ttl, ev>>

\* Variant: the OAuth session is kept under the DID only
callback_oauth_session_key_by_did(sid, did) == DidSessionKey(did)

\* "{prefix}oauth_session:{session_id}": the per-device copy of the OAuth session
callback_oauth_session_key(sid, did) == OAuthSessionKey(sid)

\* SET dpop_key:{session_id}
CbDpop(t) ==
    /\ task[t].pc = "cb_dpop"
    /\ LET key == DpopKeyKey(task[t].sid)
       IN /\ redis' = RedisSet(redis, key, DPoPKeyPair(Unwrap(task[t].oauth).dpop_key))
          /\ task' = [Touch(t, task, {key}) EXCEPT ![t].pc = "cb_oauth"]
    /\ UNCHANGED <<px, ops, now, nextSid, asGrants, asCurrent, asLatest, debug_assertions, rl, ttl, ev>>

\* SET oauth_session:{session_id}, then build the CatbirdSession
CbOAuth(t) ==
    /\ task[t].pc = "cb_oauth"
    /\ LET key == callback_oauth_session_key(task[t].sid, Unwrap(task[t].session).did)
           oauth == Unwrap(task[t].oauth)
           ts == oauth.token_set
           session == CallbackSession(task[t].sid, ts, now)
       IN /\ redis' = RedisSet(redis, key, oauth)
          /\ task' = [Touch(t, task, {key}) EXCEPT ![t].session = Some(session),
                                                   ![t].pc = "cb_save"]
    /\ UNCHANGED <<px, ops, now, nextSid, asGrants, asCurrent, asLatest, debug_assertions, rl, ttl, ev>>

\* A Redis command of the callback fails: `.await?` ends the handler with
\* AppError::Redis, answered 500, and what was written before stays
CbRedisError(t) ==
    /\ task[t].pc \in {"cb_dpop", "cb_oauth", "cb_save"}
    /\ task' = Finish(t, into_response_status("Redis"), "Redis")
    /\ UNCHANGED <<px, ops, redis, now, nextSid, asGrants, asCurrent, asLatest, debug_assertions, rl, ttl, ev>>

\* save_session, then 302 to the app
CbSave(t) ==
    /\ task[t].pc = "cb_save"
    /\ LET session == Unwrap(task[t].session)
           key == save_session_key(session)
       IN /\ redis' = RedisSet(redis, key, session)
          /\ task' = Finish(t, 302, "")
    /\ UNCHANGED <<px, ops, now, nextSid, asGrants, asCurrent, asLatest, debug_assertions, rl, ttl, ev>>

(***************************************************************************)
(* proxy_request.  A PDS response is [status, is_json, error, dpop_nonce,  *)
(* content_type_json, content_length, body_len]: whether the body parses   *)
(* as JSON and its "error" member, the DPoP-Nonce header (its value, and   *)
(* whether HeaderValue::to_str accepts it), whether Content-Type names     *)
(* application/json, the Content-Length header and the chunks the body     *)
(* arrives in (their sizes in bytes).                                      *)
(***************************************************************************)
SmallBody == 100
BodySizes == {SmallBody, STREAM_THRESHOLD + 1, MAX_RESPONSE_SIZE + 1}
BodyChunks == {<<SmallBody>>, <<STREAM_THRESHOLD + 1>>, <<MAX_RESPONSE_SIZE + 1>>,
               <<MAX_RESPONSE_SIZE + 1 - SmallBody, SmallBody, SmallBody>>}

RECURSIVE SumChunks(_)
SumChunks(chunks) == IF chunks = <<>> THEN 0 ELSE Head(chunks) + SumChunks(Tail(chunks))

\* The bytes of a response's body
body_len(resp) == SumChunks(resp.chunks)

NonceHeaders == {None, Some([value |-> "n1", ascii |-> TRUE]),
                 Some([value |-> "n1", ascii |-> FALSE])}

PdsResponses ==
    {r \in [status : {200, 400, 401}, is_json : BOOLEAN,
            error : {"", "use_dpop_nonce", "invalid_token"},
            dpop_nonce : NonceHeaders, content_type_json : BOOLEAN,
            content_length : {None} \cup {Some(n) : n \in BodySizes},
            chunks : BodyChunks] :
       /\ r.is_json <=> r.error # ""
       /\ r.is_json => r.content_type_json
       /\ IsSome(r.content_length) => Unwrap(r.content_length) = body_len(r)
       /\ r.status = 200 => r.dpop_nonce = None /\ r.error = ""}

\* The sessions, methods and bodies proxy_request is called with
ProxySessions ==
    {CallbackSession(FirstSid, TokenSet(1, Some(1), aud, 1, None), 0) : aud \in WideEnv.auds}
ProxyMethods == {"GET", "POST"}
ProxyBodies == {None, Some("b1"), Some("b2")}

\* b64url.encode(Sha256(token)): a digest that tells any two tokens apart
sha256_b64url(token) == <<"sha256", token>>

\* Variant: the ath claim is the digest of the access token the login issued
DpopProof_ath_of_login_token(session, method, nonce) ==
    [htm |-> method, ath |-> Some(sha256_b64url(1)), nonce |-> nonce]

\* generate_dpop_proof: the payload of the proof for a resource request
DpopProof(session, method, nonce) ==
    [htm |-> method, ath |-> Some(sha256_b64url(session.access_token)), nonce |-> nonce]

\* build_auth_headers_for_request: DPoP when the session is key-bound, else Bearer
build_auth_headers_for_request(session, method, nonce) ==
    IF IsSome(session.dpop_jkt)
    THEN [scheme |-> "DPoP", token |-> session.access_token,
          proof |-> Some(DpopProof(session, method, nonce))]
    ELSE [scheme |-> "Bearer", token |-> session.access_token, proof |-> None]

\* The header names of a client's request: the names the proxy manages or may
\* not pass on, and three it passes on
ClientHeaderSets ==
    {{"authorization", "dpop", "host", "content-length", "connection", "te", "accept"},
     {"keep-alive", "transfer-encoding", "trailer", "upgrade", "proxy-authorization",
      "proxy-connection", "content-type", "x-catbird-request-id"}}

\* Variant: only the hop-by-hop headers are skipped
is_skipped_header_hop_by_hop(name) ==
    name \in {"connection", "keep-alive", "transfer-encoding", "te", "trailer", "upgrade",
              "proxy-authorization", "proxy-connection"}

\* The header names the forwarding loop skips
is_skipped_header(name) ==
    name \in {"host", "connection", "keep-alive", "transfer-encoding", "te", "trailer",
              "upgrade", "proxy-authorization", "proxy-connection", "authorization", "dpop",
              "content-length"}

\* The header map of an attempt, by where each value comes from.  The gateway
\* inserts its authentication headers and the content type proxy_xrpc read
\* from the request; the loop then inserts the client's headers it does not
\* skip, and an insert replaces a value already in the map.
forward_headers(auth, client_headers) ==
    LET content_type == IF "content-type" \in client_headers THEN {"content-type"} ELSE {}
        set == {"authorization"} \cup (IF IsSome(auth.proof) THEN {"dpop"} ELSE {})
                 \cup content_type
        forwarded == {n \in client_headers :
                        /\ ~is_skipped_header(n)
                        /\ ~(n = "content-type" /\ "content-type" \in set)}
    IN [own |-> set \ forwarded, client |-> forwarded]

\* The request an attempt puts on the wire
ProxyAttempt(attempt, nonce) ==
    LET auth == build_auth_headers_for_request(Unwrap(px.session), px.method, nonce)
    IN [attempt |-> attempt, target |-> "pds", method |-> px.method, body |-> px.body,
        headers |-> auth, names |-> forward_headers(auth, px.client_headers)]

(***************************************************************************)
(* proxy_xrpc: MLS lexicons go to the MLS service when it is configured.   *)
(* A lexicon is the sequence of its labels and dots.                        *)
(***************************************************************************)
Lexicons ==
    {<<"app", ".", "bsky", ".", "feed", ".", "getTimeline">>,
     <<"blue", ".", "catbird", ".", "mls", ".", "getConvos">>,
     <<"blue", ".", "catbird", ".", "mls", ".">>,
     <<"blue", ".", "catbird", ".", "mls">>,
     <<"blue", ".", "catbird", ".", "mlsChat", ".", "getConvos">>,
     <<"x", ".", "blue", ".", "catbird", ".", "mls", ".", "getConvos">>}

\* config.mls: the service URL and the gateway's DID, each optional
MlsConfigs == [service_url : {None, Some("mls")}, gateway_did : {None, Some("did:gw")}]

\* str::starts_with
starts_with(s, prefix) ==
    Len(s) >= Len(prefix) /\ SubSeq(s, 1, Len(prefix)) = prefix

\* Variant: the prefix has no closing dot
is_mls_lexicon_no_dot(lexicon) == starts_with(lexicon, <<"blue", ".", "catbird", ".", "mls">>)

\* MlsAuthService::is_mls_lexicon
is_mls_lexicon(lexicon) == starts_with(lexicon, <<"blue", ".", "catbird", ".", "mls", ".">>)

\* MlsAuthService::is_enabled
is_enabled(mls) == IsSome(mls.service_url) /\ IsSome(mls.gateway_did)

\* generate_service_token: the claims of the JWT the gateway signs
generate_service_token(mls, session, lexicon) ==
    [iss |-> Unwrap(mls.gateway_did), sub |-> session.did, lxm |-> lexicon]

\* The request MlsAuthService::proxy_request builds: a Bearer service token and
\* the content type, none of the client's other headers
MlsAttempt(mls) ==
    LET ct == IF "content-type" \in px.client_headers THEN {"content-type"} ELSE {}
    IN [attempt |-> 1, target |-> "mls", method |-> px.method, body |-> px.body,
        headers |-> [scheme |-> "Bearer",
                     token |-> generate_service_token(mls, Unwrap(px.session), px.lexicon),
                     proof |-> None],
        names |-> [own |-> {"authorization"} \cup ct, client |-> {}]]

\* Variant: the status of attempt 1 is not looked at
is_nonce_challenge_any_status(resp) ==
    /\ resp.is_json
    /\ resp.error = "use_dpop_nonce"
    /\ IsSome(resp.dpop_nonce)
    /\ Unwrap(resp.dpop_nonce).ascii

\* proxy_request: the test that sends attempt 2
is_nonce_challenge(resp) ==
    /\ resp.status = 401
    /\ resp.is_json
    /\ resp.error = "use_dpop_nonce"
    /\ IsSome(resp.dpop_nonce)
    /\ Unwrap(resp.dpop_nonce).ascii

\* do_proxy_request: stream when Content-Length exceeds STREAM_THRESHOLD or the
\* body is not JSON
should_stream(resp) ==
    \/ (IsSome(resp.content_length) /\ Unwrap(resp.content_length) > STREAM_THRESHOLD)
    \/ ~resp.content_type_json

ProxyErr(kind, attempt) == [kind |-> "Err", error |-> kind, attempt |-> attempt, status |-> 0]
ProxyOk(kind, attempt, resp) ==
    [kind |-> kind, error |-> "", attempt |-> attempt, status |-> resp.status]

\* Content-Length over MAX_RESPONSE_SIZE is refused before the body is read
too_large_by_header(resp) ==
    IsSome(resp.content_length) /\ Unwrap(resp.content_length) > MAX_RESPONSE_SIZE

\* read_response_with_limit: chunks are taken from the stream one by one; the
\* chunk that would make the buffer outgrow max_size ends the read with
\* ResponseTooLarge.  [ok, body, taken]: Ok or Err, the bytes buffered and the
\* chunks taken from the stream.
RECURSIVE read_chunks(_, _, _, _)
read_chunks(chunks, i, body, max_size) ==
    IF i > Len(chunks) THEN [ok |-> TRUE, body |-> body, taken |-> i - 1]
    ELSE IF body + chunks[i] > max_size THEN [ok |-> FALSE, body |-> body, taken |-> i]
    ELSE read_chunks(chunks, i + 1, body + chunks[i], max_size)

read_response_with_limit(resp, max_size) == read_chunks(resp.chunks, 1, 0, max_size)

\* read_response_with_limit refuses a body that outgrows MAX_RESPONSE_SIZE
too_large_by_body(resp) == ~read_response_with_limit(resp, MAX_RESPONSE_SIZE).ok

PxReturn(result) == [px EXCEPT !.pc = "done", !.result = Some(result)]

\* proxy_request is called
PxCall ==
    /\ px.pc = "idle"
    /\ \E session \in ProxySessions, method \in ProxyMethods, body \in ProxyBodies,
          client_headers \in ClientHeaderSets :
         px' = [IdleProxy EXCEPT !.pc = "validate", !.session = Some(session),
                                 !.method = method, !.body = body,
                                 !.client_headers = client_headers]
    /\ UNCHANGED <<ops, redis, now, nextSid, asGrants, asCurrent, asLatest, debug_assertions, rl, task, ttl, ev>>

\* validate_pds_url(&session.pds_url)?
PxValidate ==
    /\ px.pc = "validate"
    /\ px' = IF validate_pds_url(Unwrap(px.session).pds_url)
             THEN [px EXCEPT !.pc = "attempt1"]
             ELSE PxReturn(ProxyErr("BadRequest", 0))
    /\ UNCHANGED <<ops, redis, now, nextSid, asGrants, asCurrent, asLatest, debug_assertions, rl, task, ttl, ev>>

\* What became of the response to an attempt: the response, the chunks read
\* from its body and the result
PxAnswered(sent, resp, taken, result) ==
    [sent EXCEPT !.pc = "done", !.final = Some(resp), !.taken = taken,
                 !.result = Some(result)]

\* do_proxy_request_buffered, attempt 1, and the retry decision
PxAttempt1 ==
    /\ px.pc = "attempt1"
    /\ IF redis[DpopKeyKey(Unwrap(px.session).id)] = None
       THEN px' = PxReturn(ProxyErr("Internal", 1))
       ELSE LET sent == [px EXCEPT !.sent = Append(@, ProxyAttempt(1, None))]
            IN \/ px' = [sent EXCEPT !.pc = "done",
                                     !.result = Some(ProxyErr("HttpClient", 1))]
               \/ \E resp \in PdsResponses :
                    LET read == read_response_with_limit(resp, MAX_RESPONSE_SIZE)
                    IN px' = IF too_large_by_header(resp)
                             THEN PxAnswered(sent, resp, 0, ProxyErr("ResponseTooLarge", 1))
                             ELSE IF too_large_by_body(resp)
                             THEN PxAnswered(sent, resp, read.taken,
                                             ProxyErr("ResponseTooLarge", 1))
                             ELSE IF is_nonce_challenge(resp)
                             THEN [sent EXCEPT !.pc = "attempt2", !.first = Some(resp),
                                               !.retried = TRUE]
                             ELSE [PxAnswered(sent, resp, read.taken,
                                              ProxyOk("Buffered", 1, resp))
                                     EXCEPT !.first = Some(resp)]
    /\ UNCHANGED <<ops, redis, now, nextSid, asGrants, asCurrent, asLatest, debug_assertions, rl, task, ttl, ev>>

\* do_proxy_request, attempt 2: its outcome is what proxy_request returns
PxAttempt2 ==
    /\ px.pc = "attempt2"
    /\ IF redis[DpopKeyKey(Unwrap(px.session).id)] = None
       THEN px' = PxReturn(ProxyErr("Internal", 2))
       ELSE LET nonce == Some(Unwrap(Unwrap(px.first).dpop_nonce).value)
                sent == [px EXCEPT !.sent = Append(@, ProxyAttempt(2, nonce))]
            IN \/ px' = [sent EXCEPT !.pc = "done",
                                     !.result = Some(ProxyErr("HttpClient", 2))]
               \/ \E resp \in PdsResponses :
                    LET read == read_response_with_limit(resp, MAX_RESPONSE_SIZE)
                    IN px' = IF too_large_by_header(resp)
                             THEN PxAnswered(sent, resp, 0, ProxyErr("ResponseTooLarge", 2))
                             ELSE IF should_stream(resp)
                             THEN PxAnswered(sent, resp, 0, ProxyOk("Streaming", 2, resp))
                             ELSE IF too_large_by_body(resp)
                             THEN PxAnswered(sent, resp, read.taken,
                                             ProxyErr("ResponseTooLarge", 2))
                             ELSE PxAnswered(sent, resp, read.taken,
                                             ProxyOk("Buffered", 2, resp))
    /\ UNCHANGED <<ops, redis, now, nextSid, asGrants, asCurrent, asLatest, debug_assertions, rl, task, ttl, ev>>

\* proxy_xrpc behind auth_middleware: proxy_request is called with the session
\* the middleware attached to the request
HandlerProxy(t) ==
    /\ task[t].pc = "handler" /\ IsSome(task[t].attached)
    /\ px.pc = "idle"
    /\ \E method \in ProxyMethods, client_headers \in ClientHeaderSets :
         px' = [IdleProxy EXCEPT !.pc = "validate", !.session = task[t].attached,
                                 !.method = method, !.client_headers = client_headers]
    /\ task' = [task EXCEPT ![t].pc = "proxy"]
    /\ UNCHANGED <<ops, redis, now, nextSid, asGrants, asCurrent, asLatest, debug_assertions, rl, ttl, ev>>

\* proxy_xrpc is called with a session the middleware attached: it chooses the
\* MLS service or the PDS
XrpcCall ==
    /\ px.pc = "idle"
    /\ \E lexicon \in Lexicons, mls \in MlsConfigs, method \in ProxyMethods,
          client_headers \in ClientHeaderSets :
         LET call == [IdleProxy EXCEPT !.session = Some(CallbackSession(FirstSid, FirstTokenSet, 0)),
                                       !.method = method, !.lexicon = lexicon,
                                       !.client_headers = client_headers]
         IN px' = IF is_mls_lexicon(lexicon) /\ is_enabled(mls)
                  THEN [call EXCEPT !.pc = "mls", !.route = "mls", !.mls = mls]
                  ELSE [call EXCEPT !.pc = "validate", !.route = "pds", !.mls = mls]
    /\ UNCHANGED <<ops, redis, now, nextSid, asGrants, asCurrent, asLatest, debug_assertions, rl, task, ttl, ev>>

\* MlsAuthService::proxy_request: one request, its body read under the cap
MlsRequest ==
    /\ px.pc = "mls"
    /\ \/ px' = PxReturn(ProxyErr("Crypto", 1))
       \/ LET sent == [px EXCEPT !.sent = Append(@, MlsAttempt(px.mls))]
          IN \/ px' = [sent EXCEPT !.pc = "done", !.result = Some(ProxyErr("Internal", 1))]
             \/ \E resp \in PdsResponses :
                  LET read == read_response_with_limit(resp, MAX_RESPONSE_SIZE)
                  IN px' = IF too_large_by_header(resp)
                           THEN PxAnswered(sent, resp, 0, ProxyErr("ResponseTooLarge", 1))
                           ELSE IF too_large_by_body(resp)
                           THEN PxAnswered(sent, resp, read.taken,
                                           ProxyErr("ResponseTooLarge", 1))
                           ELSE PxAnswered(sent, resp, read.taken, ProxyOk("Buffered", 1, resp))
    /\ UNCHANGED <<ops, redis, now, nextSid, asGrants, asCurrent, asLatest, debug_assertions, rl, task, ttl, ev>>

\* dpop_key:{id} disappears while the call runs: a logout on another connection
DpopKeyGone ==
    /\ px.pc \in {"attempt1", "attempt2"}
    /\ redis[DpopKeyKey(Unwrap(px.session).id)] # None
    /\ redis' = RedisDel(redis, DpopKeyKey(Unwrap(px.session).id))
    /\ UNCHANGED <<px, ops, now, nextSid, asGrants, asCurrent, asLatest, debug_assertions, rl, task, ttl, ev>>

(***************************************************************************)
(* The rate limiter.  Durations and instants are in milliseconds.          *)
(***************************************************************************)
CleanupInterval == 300000
CleanupMaxAge == 120000

\* Duration::as_secs
as_secs(d) == d \div 1000

\* The configurations RateLimitState::new is given, and how far the clock moves
\* between two events
RateLimitConfigs ==
    [max_requests : {1, 2}, window : {1000, 60000, 200000}]
Jumps == {500, 60000, 150000}

\* Instant::duration_since: zero when the other instant is the later one
duration_since(t, earlier) == IF t >= earlier THEN t - earlier ELSE 0

RateLimitEntry(count, window_start) == [count |-> count, window_start |-> window_start]

\* Variant: one counter for all keys
entry_key_shared(key) == "key_a"

\* entries.entry(key.to_string()): the map slot a key is counted in
entry_key(key) == key

\* RateLimiter::check on the slot of its key at instant t: the entry it leaves
\* and Ok(remaining) or Err(retry_after)
check(slot, t, config) ==
    LET inserted == IF slot = None THEN RateLimitEntry(0, t) ELSE Unwrap(slot)
        entry == IF duration_since(t, inserted.window_start) >= config.window
                 THEN RateLimitEntry(0, t) ELSE inserted
        retry_after == as_secs(config.window) - as_secs(duration_since(t, entry.window_start))
    IN IF entry.count >= config.max_requests
       THEN [entry |-> entry, ok |-> FALSE,
             value |-> IF retry_after > 1 THEN retry_after ELSE 1]
       ELSE [entry |-> RateLimitEntry(entry.count + 1, entry.window_start), ok |-> TRUE,
             value |-> config.max_requests - (entry.count + 1)]

\* RateLimiter::cleanup: retain the entries younger than max_age
cleanup(entries, t, max_age) ==
    [k \in DOMAIN entries |->
       IF entries[k] # None /\ duration_since(t, Unwrap(entries[k]).window_start) < max_age
       THEN entries[k] ELSE None]

\* RateLimitState::new(config, ..) and start_cleanup_task
RlNew ==
    /\ rl.pc = "new"
    /\ \E config \in RateLimitConfigs : rl' = [rl EXCEPT !.pc = "run", !.config = config]
    /\ UNCHANGED <<ops, redis, now, nextSid, asGrants, asCurrent, asLatest, debug_assertions, task, px, ttl, ev>>

\* interval.tick() fires: cleanup(Duration::from_secs(120))
RlCleanup ==
    /\ rl.pc = "run" /\ rl.now = rl.next_cleanup
    /\ rl' = [rl EXCEPT !.entries = cleanup(@, rl.now, CleanupMaxAge),
                        !.next_cleanup = @ + CleanupInterval]
    /\ UNCHANGED <<ops, redis, now, nextSid, asGrants, asCurrent, asLatest, debug_assertions, task, px, ttl, ev>>

\* Time passes, up to the next tick of the cleanup interval
RlAdvance ==
    /\ rl.pc = "run" /\ rl.now < rl.next_cleanup /\ rl.advances < MaxAdvances
    /\ \E d \in Jumps :
         rl' = [rl EXCEPT !.advances = @ + 1,
                          !.now = IF @ + d > rl.next_cleanup THEN rl.next_cleanup ELSE @ + d]
    /\ UNCHANGED <<ops, redis, now, nextSid, asGrants, asCurrent, asLatest, debug_assertions, task, px, ttl, ev>>

\* limiter.check(key, &config)
RlCheck ==
    /\ rl.pc = "run" /\ rl.now < rl.next_cleanup /\ Len(rl.log) < MaxChecks
    /\ \E key \in RlKeys :
         LET slot == entry_key(key)
             c == check(rl.entries[slot], rl.now, rl.config)
         IN rl' = [rl EXCEPT !.entries[slot] = Some(c.entry),
                             !.log = Append(@, [key |-> key, at |-> rl.now,
                                                ok |-> c.ok, value |-> c.value])]
    /\ UNCHANGED <<ops, redis, now, nextSid, asGrants, asCurrent, asLatest, debug_assertions, task, px, ttl, ev>>

(***************************************************************************)
(* check and cleanup called from several tasks at a time.  Each reads      *)
(* Instant::now() first and then waits for the write lock of `entries`,    *)
(* which it holds until it returns.                                        *)
(***************************************************************************)
Callers == {1, 2}

\* No check is running, the lock is free (0), the cleanup task sleeps
IdleCallers ==
    [pc |-> "limiter",
     call |-> [c \in Callers |-> [pc |-> "idle"]],
     lock |-> 0,
     cleanup |-> None]

\* Variant: the lock is shared, as a read lock is
write_lock_free_shared(lock) == TRUE

\* self.entries.write().await returns when no task holds the lock
write_lock_free(lock) == lock = 0

\* let now = Instant::now(), at the start of check
CheckNow(c) ==
    /\ ev.call[c].pc = "idle" /\ rl.pc = "run"
    /\ Len(rl.log) + Cardinality({d \in Callers : ev.call[d].pc # "idle"}) < MaxCalls
    /\ \A d \in Callers : d < c => ev.call[d].pc # "idle"
    /\ \E key \in RlKeys :
         ev' = [ev EXCEPT !.call[c] = [pc |-> "wait", key |-> key, at |-> rl.now]]
    /\ UNCHANGED <<ops, redis, now, nextSid, asGrants, asCurrent, asLatest, debug_assertions, task, px, rl, ttl>>

\* The lock is granted; the entry is inserted or reset and the limit is looked at
CheckLock(c) ==
    /\ ev.call[c].pc = "wait" /\ write_lock_free(ev.lock)
    /\ LET call == ev.call[c]
           slot == rl.entries[entry_key(call.key)]
       IN ev' = [ev EXCEPT !.lock = c,
                           !.call[c] = [pc |-> "locked", key |-> call.key, at |-> call.at,
                                        result |-> check(slot, call.at, rl.config)]]
    /\ UNCHANGED <<ops, redis, now, nextSid, asGrants, asCurrent, asLatest, debug_assertions, task, px, rl, ttl>>

\* The entry is written, check returns and the lock guard is dropped.  The log
\* notes whether the write opened a window: the key had no entry, or the
\* entry's window_start is a new one.
CheckStore(c) ==
    /\ ev.call[c].pc = "locked"
    /\ LET call == ev.call[c]
           slot == rl.entries[entry_key(call.key)]
           opened == \/ slot = None
                     \/ Unwrap(slot).window_start # call.result.entry.window_start
       IN /\ rl' = [rl EXCEPT !.entries[entry_key(call.key)] = Some(call.result.entry),
                              !.log = Append(@, [key |-> call.key, at |-> call.at,
                                                 ok |-> call.result.ok,
                                                 value |-> call.result.value,
                                                 opened |-> opened])]
          /\ ev' = [ev EXCEPT !.lock = 0, !.call[c] = [pc |-> "idle"]]
    /\ UNCHANGED <<ops, redis, now, nextSid, asGrants, asCurrent, asLatest, debug_assertions, task, px, ttl>>

\* interval.tick() fires and cleanup reads Instant::now()
CleanupNow ==
    /\ rl.pc = "run" /\ rl.now = rl.next_cleanup /\ ev.cleanup = None
    /\ ev' = [ev EXCEPT !.cleanup = Some(rl.now)]
    /\ rl' = [rl EXCEPT !.next_cleanup = @ + CleanupInterval]
    /\ UNCHANGED <<ops, redis, now, nextSid, asGrants, asCurrent, asLatest, debug_assertions, task, px, ttl>>

\* cleanup gets the lock and retains the young entries
CleanupRetain ==
    /\ IsSome(ev.cleanup) /\ write_lock_free(ev.lock)
    /\ rl' = [rl EXCEPT !.entries = cleanup(@, Unwrap(ev.cleanup), CleanupMaxAge)]
    /\ ev' = [ev EXCEPT !.cleanup = None]
    /\ UNCHANGED <<ops, redis, now, nextSid, asGrants, asCurrent, asLatest, debug_assertions, task, px, ttl>>

(***************************************************************************)
(* The /xrpc routes: .layer(session_rate_limit).layer(auth_middleware).    *)
(* The layer added last is the outermost: auth_middleware runs first and   *)
(* its next.run(req) is session_rate_limit, whose next.run(req) is         *)
(* proxy_xrpc.                                                              *)
(***************************************************************************)
\* format!("session:{}", session_id): the key of a session that passed
\* auth_middleware
session_rate_limit_key(sid) == IF sid = FirstSid THEN "key_a" ELSE "key_b"

\* The sessions that reach the limiter: the one that exists at the start and
\* the first a login creates
LimitedSids == {FirstSid, FirstSid + 1}

\* Variant: the session's pds_url is validated before the request is counted
XrpcRateLimit_validates_first(t) ==
    /\ task[t].pc = "handler" /\ task[t].op = "protected"
    /\ task[t].sid \in LimitedSids
    /\ rl.pc = "run"
    /\ LET key == session_rate_limit_key(task[t].sid)
           slot == entry_key(key)
           c == check(rl.entries[slot], rl.now, rl.config)
       IN IF ~validate_pds_url(Unwrap(task[t].attached).pds_url)
          THEN /\ rl' = rl
               /\ task' = Finish(t, 400, "BadRequest")
          ELSE /\ rl' = [rl EXCEPT !.entries[slot] = Some(c.entry),
                                   !.log = Append(@, [key |-> key, at |-> rl.now,
                                                      ok |-> c.ok, value |-> c.value])]
               /\ task' = IF c.ok THEN [task EXCEPT ![t].pc = "xrpc"]
                          ELSE Finish(t, 429, "rate_limit_exceeded")
    /\ UNCHANGED <<ops, redis, now, nextSid, asGrants, asCurrent, asLatest, debug_assertions, px, ttl, ev>>

\* session_rate_limit, reached through auth_middleware's next.run(req)
XrpcRateLimit(t) ==
    /\ task[t].pc = "handler" /\ task[t].op = "protected"
    /\ task[t].sid \in LimitedSids
    /\ rl.pc = "run"
    /\ LET key == session_rate_limit_key(task[t].sid)
           slot == entry_key(key)
           c == check(rl.entries[slot], rl.now, rl.config)
       IN /\ rl' = [rl EXCEPT !.entries[slot] = Some(c.entry),
                              !.log = Append(@, [key |-> key, at |-> rl.now,
                                                 ok |-> c.ok, value |-> c.value])]
          /\ task' = IF c.ok THEN [task EXCEPT ![t].pc = "xrpc"]
                     ELSE Finish(t, 429, "rate_limit_exceeded")
    /\ UNCHANGED <<ops, redis, now, nextSid, asGrants, asCurrent, asLatest, debug_assertions, px, ttl, ev>>

\* proxy_xrpc answers
XrpcHandler(t) ==
    /\ task[t].pc = "xrpc"
    /\ task' = Finish(t, 200, "")
    /\ UNCHANGED <<px, ops, redis, now, nextSid, asGrants, asCurrent, asLatest, debug_assertions, rl, ttl, ev>>

\* AppError::ResponseTooLarge is answered 502
ResponseTooLargeStatus == 502

\* The status proxy_xrpc's caller sees: that of the upstream response, or that
\* of the error proxy_request returned
xrpc_status(result) ==
    IF result.kind = "Err"
    THEN IF result.error = "ResponseTooLarge" THEN ResponseTooLargeStatus
         ELSE into_response_status(result.error)
    ELSE IF IsSome(from_u16(result.status)) THEN result.status ELSE 502

\* proxy_xrpc, reached through session_rate_limit's next.run(req): the request
\* goes to the MLS service or, through proxy_request, to the PDS
XrpcForward(t, lexicons, configs) ==
    /\ task[t].pc = "xrpc"
    /\ px.pc = "idle"
    /\ \E lexicon \in lexicons, mls \in configs, method \in ProxyMethods,
          client_headers \in ClientHeaderSets :
         LET call == [IdleProxy EXCEPT !.session = task[t].attached,
                                       !.method = method, !.lexicon = lexicon,
                                       !.client_headers = client_headers, !.mls = mls]
         IN px' = IF is_mls_lexicon(lexicon) /\ is_enabled(mls)
                  THEN [call EXCEPT !.pc = "mls", !.route = "mls"]
                  ELSE [call EXCEPT !.pc = "validate", !.route = "pds"]
    /\ task' = [task EXCEPT ![t].pc = "proxy"]
    /\ UNCHANGED <<ops, redis, now, nextSid, asGrants, asCurrent, asLatest, debug_assertions, rl, ttl, ev>>

\* proxy_xrpc answers with what the proxied call returned, and the call's
\* locals are dropped
XrpcRespond(t) ==
    /\ task[t].pc = "proxy"
    /\ px.pc = "done"
    /\ LET result == Unwrap(px.result)
       IN task' = Finish(t, xrpc_status(result), result.error)
    /\ px' = IdleProxy
    /\ UNCHANGED <<ops, redis, now, nextSid, asGrants, asCurrent, asLatest, debug_assertions, rl, ttl, ev>>

\* Time passes on the wall clock and on the limiter's monotonic clock
LimitTick ==
    /\ now < MaxTicks * TickSeconds
    /\ rl.pc = "run"
    /\ now' = now + TickSeconds
    /\ rl' = [rl EXCEPT !.now = @ + TickSeconds * 1000]
    /\ UNCHANGED <<px, ops, redis, nextSid, asGrants, asCurrent, asLatest, debug_assertions, task, ttl, ev>>

(***************************************************************************)
(* Expiry of the per-session records.  Every write is SET .. EX             *)
(* session_ttl_seconds; Redis drops a key when its expiry is reached.       *)
(***************************************************************************)
SessionTtlSeconds == 2592000
TtlJumps == {864000, 1728000}

\* conn.set_ex(key, value, seconds): the key expires `seconds` from now
set_ex(store, kind, seconds) ==
    [store EXCEPT !.deadline[kind] = Some(store.clock + seconds)]

\* Redis holds the key: it was set and its expiry has not been reached
live(store, kind) ==
    IsSome(store.deadline[kind]) /\ Unwrap(store.deadline[kind]) > store.clock

\* oauth_callback writes dpop_key, oauth_session and catbird_session
TtlCallback ==
    /\ ttl.pc = "none"
    /\ LET a == set_ex(ttl, "dpop_key", SessionTtlSeconds)
           b == set_ex(a, "oauth_session", SessionTtlSeconds)
           c == set_ex(b, "catbird_session", SessionTtlSeconds)
       IN ttl' = [c EXCEPT !.pc = "live", !.dpop = Some(1)]
    /\ UNCHANGED <<ops, redis, now, nextSid, asGrants, asCurrent, asLatest, debug_assertions, task, px, rl, ev>>

\* A request through get_valid_session: without catbird_session it is refused;
\* a refresh needs oauth_session and the DPoP key and writes oauth_session;
\* save_session writes catbird_session.  Nothing writes dpop_key.
TtlRequest ==
    /\ ttl.pc = "live" /\ ttl.requests < MaxTtlRequests
    /\ \E refresh \in BOOLEAN :
         LET counted == [ttl EXCEPT !.requests = @ + 1]
         IN ttl' = IF ~live(ttl, "catbird_session") THEN counted
                   ELSE IF ~refresh THEN set_ex(counted, "catbird_session", SessionTtlSeconds)
                   ELSE IF ~live(ttl, "oauth_session") \/ ~live(ttl, "dpop_key") THEN counted
                   ELSE set_ex(set_ex(counted, "oauth_session", SessionTtlSeconds),
                               "catbird_session", SessionTtlSeconds)
    /\ UNCHANGED <<ops, redis, now, nextSid, asGrants, asCurrent, asLatest, debug_assertions, task, px, rl, ev>>

\* Time passes
TtlAdvance ==
    /\ ttl.pc = "live" /\ ttl.advances < MaxTtlAdvances
    /\ \E d \in TtlJumps : ttl' = [ttl EXCEPT !.clock = @ + d, !.advances = @ + 1]
    /\ UNCHANGED <<ops, redis, now, nextSid, asGrants, asCurrent, asLatest, debug_assertions, task, px, rl, ev>>

\* get_valid_session with its refresh, as the middleware calls it
GvsStep(t, env) ==
    \/ GvsGet(t) \/ GvsSave(t)
    \/ RfLoad(t) \/ RfPost1(t, env) \/ RfPost2(t, env) \/ RfWrite(t)
    \/ ClearSession(t) \/ ClearDpop(t) \/ ClearOAuth(t)

\* logout with revoke_session
LogoutStep(t) ==
    \/ RvPost1(t) \/ RvPost2(t) \/ RvDelete(t)
    \/ LogoutDelDpop(t) \/ LogoutDelOAuth(t)

\* oauth_callback
CallbackStep(t, env) ==
    \/ CbExchange(t, env) \/ CbRead(t) \/ CbDpop(t) \/ CbOAuth(t) \/ CbSave(t)

\* What one task does next
TaskStep(t, env) ==
    GvsStep(t, env) \/ LogoutStep(t) \/ CallbackStep(t, env)

\* Two requests in flight, in any interleaving of their Redis and HTTP steps
Next ==
    \/ Tick
    \/ \E t \in Tasks : Start(t, MaxOps) \/ TaskStep(t, NarrowEnv)

Spec == Init /\ [][Next]_vars

\* One request at a time, every answer of the outside world
NextSeq ==
    \/ Tick
    \/ Free(1) /\ AsInvalidate
    \/ Start(1, MaxOps) \/ TaskStep(1, WideEnv)

SpecSeq == Init /\ [][NextSeq]_vars

\* One proxy_request call against every PDS answer
NextProxy == PxCall \/ PxValidate \/ PxAttempt1 \/ PxAttempt2 \/ DpopKeyGone

SpecProxy == Init /\ [][NextProxy]_vars

\* Logins, among the other requests, while Redis commands of the callback can
\* fail.  The clock stands still: no access token expires, and the only refresh
\* is that of the legacy session, which ends in RfLoad.
NextLogin ==
    \E t \in Tasks :
      \/ Start(t, MaxOps)
      \/ GvsGet(t) \/ GvsSave(t) \/ RfLoad(t)
      \/ LogoutStep(t)
      \/ CallbackStep(t, NarrowEnv) \/ CbRedisError(t)

SpecLogin == Init /\ [][NextLogin]_vars

\* One request at a time through auth_middleware or optional_auth_middleware
NextAuth ==
    \/ Tick
    \/ Free(1) /\ AsInvalidate
    \/ StartAuth(1) \/ MwExtract(1) \/ GvsStep(1, NarrowEnv) \/ Handler(1)

SpecAuth == Init /\ [][NextAuth]_vars

\* Requests one at a time, one of them followed through proxy_request
NextDpop ==
    \/ px.pc = "idle" /\ Tick
    \/ px.pc = "idle" /\ Free(1) /\ AsInvalidate
    \/ px.pc = "idle" /\ StartAuth(1)
    \/ MwExtract(1) \/ GvsStep(1, NarrowEnv) \/ Handler(1) \/ HandlerProxy(1)
    \/ PxValidate \/ PxAttempt1 \/ PxAttempt2

SpecDpop == Init /\ [][NextDpop]_vars

\* Requests one at a time with their refreshes, and the proxied request on
\* either route
NextFrame ==
    \/ NextDpop
    \/ InitGateway /\ XrpcCall
    \/ MlsRequest

SpecFrame == Init /\ [][NextFrame]_vars

\* Requests to the /xrpc routes, one at a time
NextLimit ==
    \/ RlNew \/ RlCleanup \/ LimitTick
    \/ Free(1) /\ AsInvalidate
    \/ rl.pc = "run" /\ StartAuth(1)
    \/ MwExtract(1) \/ GvsStep(1, NarrowEnv)
    \/ XrpcRateLimit(1) \/ XrpcHandler(1)
    \/ task[1].op = "optional" /\ Handler(1)

SpecLimit == Init /\ [][NextLimit]_vars

\* A login, then requests to the /xrpc routes, one at a time, each followed
\* through the limiter and proxy_request
PdsLexicons == {<<"app", ".", "bsky", ".", "feed", ".", "getTimeline">>}
MlsOff == {[service_url |-> None, gateway_did |-> None]}
\* Logins whose token set names the PDS or the metadata address as its audience
QuotaEnv == [auds |-> WideEnv.auds, refresh |-> {TRUE}, rotation |-> {TRUE}]

\* The PDS answers with a small body
SmallAnswer ==
    \A r \in {px.first, px.final} : IsSome(r) => Unwrap(r).chunks = <<SmallBody>>

NextQuota ==
    \/ RlNew /\ rl'.config.window = 60000
    \/ RlCleanup
    \/ Free(1) /\ LimitTick
    \/ ops = 0 /\ rl.pc = "run" /\ now = 0 /\ AsInvalidate /\ LegacyToken \in asCurrent'
    \/ rl.pc = "run" /\ Start(1, MaxOps) /\ task'[1].op = "callback"
    \/ CallbackStep(1, QuotaEnv)
    \/ rl.pc = "run" /\ StartAuth(1) /\ task'[1].op = "protected"
    \/ MwExtract(1) \/ GvsStep(1, NarrowEnv)
    \/ XrpcRateLimit(1) \/ XrpcRespond(1)
    \/ XrpcForward(1, PdsLexicons, MlsOff) /\ px'.method = "GET" /\ "accept" \in px'.client_headers
    \/ PxValidate
    \/ (PxAttempt1 \/ PxAttempt2) /\ SmallAnswer'

SpecQuota == Init /\ [][NextQuota]_vars

\* Logins, requests to the /xrpc routes on either route and logouts, one at a
\* time, against an Authorization Server that may issue no refresh token and
\* does not rotate one
MlsLexicons == {<<"blue", ".", "catbird", ".", "mls", ".", "getConvos">>}
MlsOn == {[service_url |-> Some("mls"), gateway_did |-> Some("did:gw")]}
ChannelEnv == [auds |-> {PdsUrl}, refresh |-> BOOLEAN, rotation |-> {FALSE}]

NextChannel ==
    \/ RlNew /\ rl'.config = [max_requests |-> 2, window |-> 60000]
    \/ Free(1) /\ LimitTick
    \/ ops = 0 /\ rl.pc = "run" /\ now = 0 /\ AsInvalidate /\ LegacyToken \in asCurrent'
    \/ rl.pc = "run" /\ Start(1, MaxOps) /\ task'[1].op \in {"callback", "logout"}
    \/ CallbackStep(1, ChannelEnv)
    \/ LogoutStep(1)
    \/ rl.pc = "run" /\ StartAuth(1) /\ task'[1].op = "protected" /\ task'[1].sid \in LimitedSids
    \/ MwExtract(1) \/ GvsStep(1, ChannelEnv)
    \/ XrpcRateLimit(1) \/ XrpcRespond(1)
    \/ XrpcForward(1, PdsLexicons \cup MlsLexicons, MlsOn) /\ px'.method = "POST"
    \/ PxValidate
    \/ (PxAttempt1 \/ PxAttempt2 \/ MlsRequest) /\ SmallAnswer'

SpecChannel == Init /\ [][NextChannel]_vars

\* The steps of one request to an /xrpc route: every call it awaits returns
\* (the HTTP client gives up after 30 s)
XrpcRunStep ==
    \/ MwExtract(1) \/ GvsStep(1, NarrowEnv)
    \/ XrpcRateLimit(1) \/ XrpcRespond(1)
    \/ XrpcForward(1, PdsLexicons \cup MlsLexicons, MlsOn) /\ px'.method = "POST"
    \/ PxValidate
    \/ (PxAttempt1 \/ PxAttempt2 \/ MlsRequest) /\ SmallAnswer'

\* Requests to the /xrpc routes, one at a time, each followed to its answer
NextXrpcRun ==
    \/ RlNew /\ rl'.config = [max_requests |-> 1, window |-> 60000]
    \/ Free(1) /\ LimitTick
    \/ ops = 0 /\ rl.pc = "run" /\ now = 0 /\ AsInvalidate /\ LegacyToken \in asCurrent'
    \/ rl.pc = "run" /\ StartAuth(1) /\ task'[1].op = "protected" /\ task'[1].sid = FirstSid
    \/ XrpcRunStep

SpecXrpcRun == Init /\ [][NextXrpcRun]_vars /\ WF_vars(XrpcRunStep)

\* proxy_xrpc with its two routes
NextXrpc == XrpcCall \/ MlsRequest \/ PxValidate \/ PxAttempt1 \/ PxAttempt2

SpecXrpc == Init /\ [][NextXrpc]_vars

(***************************************************************************)
(* The two cleanups as functions of the store.  A DEL that fails is        *)
(* ignored (`let _ =`), and both return Ok.                                 *)
(***************************************************************************)
\* Every store in which each key is either absent or holds its record
Stores == [Keys -> {None, Some("record")}]

\* Variant: the whole keyspace is flushed
clear_session_data_flush(store, sid) ==
    [ok |-> TRUE, store |-> [k \in DOMAIN store |-> None]]

\* clear_session_data: DEL catbird_session, dpop_key, oauth_session of the id
clear_session_data(store, sid) ==
    [ok |-> TRUE,
     store |-> RedisDel(RedisDel(RedisDel(store, CatbirdSessionKey(sid)), DpopKeyKey(sid)),
                        OAuthSessionKey(sid))]

\* logout's own cleanup: DEL dpop_key, oauth_session of the id
logout_cleanup(store, sid) ==
    [ok |-> TRUE, store |-> RedisDel(RedisDel(store, DpopKeyKey(sid)), OAuthSessionKey(sid))]

run_cleanup(op, store, sid) ==
    IF op = "clear_session_data" THEN clear_session_data(store, sid)
    ELSE logout_cleanup(store, sid)

InitCleanup ==
    /\ InitGateway
    /\ ev \in {[pc |-> "cleanup", op |-> op, sid |-> sid, store |-> store] :
                 op \in {"clear_session_data", "logout"}, sid \in SessionIds, store \in Stores}

\* The cleanup runs
CleanupOnce ==
    /\ ev.pc = "cleanup"
    /\ ev' = [pc |-> "once", op |-> ev.op, sid |-> ev.sid, store |-> ev.store,
              once |-> run_cleanup(ev.op, ev.store, ev.sid)]
    /\ UNCHANGED <<ops, redis, now, nextSid, asGrants, asCurrent, asLatest, debug_assertions, task, px, rl, ttl>>

\* It runs again on the store it left
CleanupTwice ==
    /\ ev.pc = "once"
    /\ ev' = [pc |-> "twice", op |-> ev.op, sid |-> ev.sid, store |-> ev.store,
              once |-> ev.once, twice |-> run_cleanup(ev.op, ev.once.store, ev.sid)]
    /\ UNCHANGED <<ops, redis, now, nextSid, asGrants, asCurrent, asLatest, debug_assertions, task, px, rl, ttl>>

SpecCleanup == InitCleanup /\ [][CleanupOnce \/ CleanupTwice]_vars

(***************************************************************************)
(* validate_pds_url over a set of URLs and the two builds.                  *)
(***************************************************************************)
SsrfHosts ==
    {NoHost}
    \cup {Ipv4Host(o[1], o[2], o[3], o[4]) : o \in
           {<<127, 0, 0, 1>>, <<127, 255, 255, 254>>, <<10, 0, 0, 1>>, <<10, 255, 255, 255>>,
            <<172, 16, 0, 1>>, <<172, 31, 255, 255>>, <<172, 15, 255, 255>>, <<172, 32, 0, 1>>,
            <<192, 168, 0, 1>>, <<192, 167, 255, 255>>, <<169, 254, 169, 254>>,
            <<169, 253, 0, 1>>, <<255, 255, 255, 255>>, <<0, 0, 0, 0>>, <<192, 0, 2, 1>>,
            <<198, 51, 100, 7>>, <<203, 0, 113, 9>>, <<203, 0, 114, 9>>, <<100, 64, 0, 1>>,
            <<100, 127, 255, 255>>, <<100, 63, 255, 255>>, <<100, 128, 0, 0>>,
            <<8, 8, 8, 8>>, <<1, 1, 1, 1>>}}
    \cup {Ipv6Host(s) : s \in
           {<<0, 0, 0, 0, 0, 0, 0, 1>>, <<0, 0, 0, 0, 0, 0, 0, 0>>,
            <<64512, 0, 0, 0, 0, 0, 0, 1>>, <<65023, 0, 0, 0, 0, 0, 0, 1>>,
            <<65152, 0, 0, 0, 0, 0, 0, 1>>, <<65215, 65535, 0, 0, 0, 0, 0, 1>>,
            <<0, 0, 0, 0, 0, 65535, 32512, 1>>,       \* ::ffff:127.0.0.1
            <<0, 0, 0, 0, 0, 65535, 2560, 1>>,        \* ::ffff:10.0.0.1
            <<0, 0, 0, 0, 0, 65535, 49320, 257>>,     \* ::ffff:192.168.1.1
            <<0, 0, 0, 0, 0, 65535, 43518, 43518>>,   \* ::ffff:169.254.169.254
            <<0, 0, 0, 0, 0, 65535, 25664, 1>>,       \* ::ffff:100.64.0.1
            <<0, 0, 0, 0, 0, 65535, 2056, 2056>>,     \* ::ffff:8.8.8.8
            <<8193, 18528, 18528, 0, 0, 0, 0, 34952>>, \* 2001:4860:4860::8888
            <<9734, 18176, 18176, 0, 0, 0, 0, 4369>>}} \* 2606:4700:4700::1111
    \cup {DomainHost(l) : l \in
           {<<"localhost">>, <<"localhost", "localdomain">>, <<"test", "localhost">>,
            <<"printer", "local">>, <<"local">>, <<"bsky", "social">>,
            <<"pds", "example", "com">>}}

SsrfUrls ==
    {EmptyUrl} \cup {Url(scheme, host) : scheme \in {"https", "http", "ftp", "file"},
                                         host \in SsrfHosts}

InitSsrf ==
    /\ InitGateway
    /\ ev \in {[pc |-> "url", debug |-> d, url |-> u] : d \in BOOLEAN, u \in SsrfUrls}

\* validate_pds_url(url) in the build
SsrfValidate ==
    /\ ev.pc = "url"
    /\ ev' = [pc |-> "validated", debug |-> ev.debug, url |-> ev.url,
              ok |-> validate_pds_url_in(ev.debug, ev.url)]
    /\ UNCHANGED <<ops, redis, now, nextSid, asGrants, asCurrent, asLatest, debug_assertions, task, px, rl, ttl>>

SpecSsrf == InitSsrf /\ [][SsrfValidate]_vars

\* A handler returns Err(e) and axum turns it into the response
InitErr == InitGateway /\ ev \in {[pc |-> "error", error |-> e] : e \in AppErrors}

ErrRespond ==
    /\ ev.pc = "error"
    /\ ev' = [pc |-> "responded", error |-> ev.error, response |-> into_response(ev.error)]
    /\ UNCHANGED <<ops, redis, now, nextSid, asGrants, asCurrent, asLatest, debug_assertions, task, px, rl, ttl>>

SpecErr == InitErr /\ [][ErrRespond]_vars

\* One session's records and their expiry over the weeks after the login
NextTtl == TtlCallback \/ TtlRequest \/ TtlAdvance

SpecTtl == Init /\ [][NextTtl]_vars

\* One rate limiter, its checks and its cleanup task
NextRate == RlNew \/ RlCleanup \/ RlAdvance \/ RlCheck

SpecRate == Init /\ [][NextRate]_vars

\* One rate limiter, checks from two tasks and the cleanup task
InitCheckers == InitGateway /\ ev = IdleCallers

NextCheckers ==
    \/ RlNew /\ rl'.config.window > 1000
    \/ RlAdvance /\ rl'.now >= rl.now + 60000
    \/ CleanupNow \/ CleanupRetain
    \/ \E c \in Callers : CheckNow(c) \/ CheckLock(c) \/ CheckStore(c)

SpecCheckers == InitCheckers /\ [][NextCheckers]_vars

(***************************************************************************)
(* Signing keys and the MLS service token.  A secret key is a name; a      *)
(* file path is its file stem (a sequence of pieces) with the key the file *)
(* holds; a kid is a sequence of pieces too.                               *)
(***************************************************************************)
ServiceTokenLifetime == 120    \* mls_auth.rs:67

\* SecretKey::public_key
public_key(secret_key) == <<"pub", secret_key>>

\* "catbird-key-1": the kid of a single legacy key
LegacyKid == <<"catbird-", "key-1">>

\* derive_kid_from_path: the file stem, prefixed with "catbird-" unless it has it
derive_kid_from_path(path) ==
    IF starts_with(path.stem, <<"catbird-">>) THEN path.stem ELSE <<"catbird-">> \o path.stem

\* KeyStore::from_config: the keys of private_key_paths (a later path replaces an
\* earlier one of the same kid), else the legacy key; Err when there is no key or
\* active_key_id names none of them
from_config(oauth) ==
    LET paths == oauth.private_key_paths
        kids == {derive_kid_from_path(paths[i]) : i \in 1..Len(paths)}
        last(kid) == CHOOSE i \in 1..Len(paths) :
                       /\ derive_kid_from_path(paths[i]) = kid
                       /\ \A j \in (i + 1)..Len(paths) : derive_kid_from_path(paths[j]) # kid
        loaded == [kid \in kids |-> paths[last(kid)].pem]
        keys == IF kids # {} THEN loaded
                ELSE IF IsSome(oauth.private_key)
                THEN [kid \in {LegacyKid} |-> Unwrap(oauth.private_key)]
                ELSE loaded
    IN IF DOMAIN keys = {} THEN [kind |-> "Err", error |-> "Config"]
       ELSE IF oauth.active_key_id \notin DOMAIN keys THEN [kind |-> "Err", error |-> "Config"]
       ELSE [kind |-> "Ok", keys |-> keys, active_key_id |-> oauth.active_key_id]

\* Variant: the active kid with the key of another entry, when there is one
active_key_other(key_store) ==
    LET others == DOMAIN key_store.keys \ {key_store.active_key_id}
        from == IF others = {} THEN key_store.active_key_id ELSE CHOOSE k \in others : TRUE
    IN [kid |-> key_store.active_key_id, secret_key |-> key_store.keys[from]]

\* KeyStore::active_key
active_key(key_store) ==
    [kid |-> key_store.active_key_id, secret_key |-> key_store.keys[key_store.active_key_id]]

\* KeyStore::to_jwks: one JWK for each key of the store
to_jwks(key_store) ==
    {[kty |-> "EC", crv |-> "P-256", use |-> "sig", kid |-> kid,
      public |-> public_key(key_store.keys[kid])] : kid \in DOMAIN key_store.keys}

\* GET /.well-known/jwks.json: the key store's keys, else the legacy key as
\* "catbird-key-1", else no key
jwks(state) ==
    IF IsSome(state.key_store) THEN to_jwks(Unwrap(state.key_store))
    ELSE IF state.oauth.private_key = None THEN {}
    ELSE {[kty |-> "EC", crv |-> "P-256", use |-> "sig", kid |-> LegacyKid,
           public |-> public_key(Unwrap(state.oauth.private_key))]}

\* sign_jwt_with_kid: header, payload, and the ES256 signature over both
sign_jwt_with_kid(claims, signing_key, kid) ==
    LET header == [alg |-> "ES256", typ |-> "JWT", kid |-> kid]
    IN [header |-> header, claims |-> claims,
        signature |-> [key |-> signing_key, input |-> <<header, claims>>]]

\* sign_jwt: the legacy key's kid
sign_jwt(claims, signing_key) == sign_jwt_with_kid(claims, signing_key, LegacyKid)

\* generate_service_token at instant t, with the uuid it draws: the claims, signed
\* with the key store's active key, else with the legacy key
generate_service_token_at(state, session, lexicon, t, uuid) ==
    IF state.mls.gateway_did = None THEN [kind |-> "Err", error |-> "Config"]
    ELSE LET named == generate_service_token(state.mls, session, lexicon)
             claims == [iss |-> named.iss, sub |-> named.sub, aud |-> state.mls.service_did,
                        exp |-> t + ServiceTokenLifetime, iat |-> t, lxm |-> named.lxm,
                        jti |-> uuid]
         IN IF IsSome(state.key_store)
            THEN LET key == active_key(Unwrap(state.key_store))
                 IN [kind |-> "Ok", jwt |-> sign_jwt_with_kid(claims, key.secret_key, key.kid)]
            ELSE IF state.oauth.private_key = None
            THEN [kind |-> "Err", error |-> "Config"]
            ELSE [kind |-> "Ok", jwt |-> sign_jwt(claims, Unwrap(state.oauth.private_key))]

\* Key files and OAuth configurations
KeyPaths ==
    {[stem |-> <<"key1">>, pem |-> "s1"], [stem |-> <<"catbird-", "key2">>, pem |-> "s2"],
     [stem |-> <<"catbird-", "key1">>, pem |-> "s3"]}
OAuthConfigs ==
    [private_key_paths : {<<>>} \cup {<<a>> : a \in KeyPaths}
                                \cup {<<a, b>> : a \in KeyPaths, b \in KeyPaths},
     private_key : {None, Some("s0")},
     active_key_id : {LegacyKid, <<"catbird-", "key1">>, <<"catbird-", "key2">>}]

\* AppState: the key store from_config built (or none), the OAuth and MLS configuration
AppStates ==
    {[key_store |-> IF with_store THEN Some(from_config(oauth)) ELSE None,
      oauth |-> oauth, mls |-> mls] :
       oauth \in OAuthConfigs, with_store \in BOOLEAN,
       mls \in {[service_url |-> Some("mls"), gateway_did |-> gw, service_did |-> "did:mls"] :
                  gw \in {None, Some("did:gw")}}}

InitMint ==
    /\ InitGateway
    /\ ev \in {[pc |-> "mint", state |-> state, t |-> t, lexicon |-> lexicon,
                session |-> [CallbackSession(FirstSid, FirstTokenSet, 0)
                               EXCEPT !.did = did, !.handle = 3 - did]] :
                 state \in {a \in AppStates :
                              IsSome(a.key_store) => Unwrap(a.key_store).kind = "Ok"},
                 t \in {0, TickSeconds}, did \in {1, 2},
                 lexicon \in {l \in Lexicons : is_mls_lexicon(l)}}

\* MlsAuthService::proxy_request mints the token of one request; the JWKS
\* endpoint is read at the same moment
MintServiceToken ==
    /\ ev.pc = "mint"
    /\ ev' = [pc |-> "minted", state |-> ev.state, t |-> ev.t, lexicon |-> ev.lexicon,
              session |-> ev.session,
              token |-> generate_service_token_at(ev.state, ev.session, ev.lexicon, ev.t, "uuid"),
              jwks |-> jwks(ev.state)]
    /\ UNCHANGED <<ops, redis, now, nextSid, asGrants, asCurrent, asLatest, debug_assertions, task, px, rl, ttl>>

SpecMint == InitMint /\ [][MintServiceToken]_vars

(***************************************************************************)
(* Properties.                                                             *)
(***************************************************************************)
ClearPcs == {"clr_session", "clr_dpop", "clr_oauth"}

NoRecordOf(sid) == \A k \in PerSessionKeys(sid) : redis[k] = None

\* C1: once a call of revoke_session has returned (Ok or Err), none of the
\* three per-session records of its session exists.
C1_RevokeLeavesNoRecord ==
    \A t \in Tasks : task[t].revoke # "" => NoRecordOf(task[t].sid)

\* C2: once POST /auth/logout for session S has answered 200, catbird_session:{S}
\* is absent (so get_session finds nothing and the next request is answered 401),
\* also when revoke_session failed.
C2_LogoutRemovesSession ==
    \A t \in Tasks :
      (task[t].pc = "done" /\ task[t].op = "logout" /\ task[t].status = 200)
        => redis[CatbirdSessionKey(task[t].sid)] = None

\* C3: after a refresh has answered TokenRefresh (invalid_grant) for a session
\* id, Redis holds none of the three records of that id.
C3_InvalidGrantLeavesNoRecord ==
    \A t \in Tasks :
      (task[t].pc = "done" /\ task[t].error = "TokenRefresh") => NoRecordOf(task[t].sid)

\* C4: a request running for session A reads and writes no per-session record
\* of another session B, and a refresh or logout never touches the DID-keyed
\* record: the refresh token comes from oauth_session:{A}.
C4_PerDeviceIsolation ==
    \A t \in Tasks :
      /\ \A b \in SessionIds \ {task[t].sid} : task[t].touched \cap PerSessionKeys(b) = {}
      /\ task[t].op \in {"session", "logout"}
           => \A d \in Dids : DidSessionKey(d) \notin task[t].touched
      /\ (task[t].op \in {"session", "logout"} /\ IsSome(task[t].oauth))
           => OAuthSessionKey(task[t].sid) \in task[t].touched

\* C4 witness: a refresh of session FirstSid has its grant in hand while the login
\* of a second device of the same DID is writing that device's records.
C4_Witness ==
    \E t, u \in Tasks :
      /\ task[t].pc = "rf_write" /\ task[t].sid = FirstSid
      /\ task[u].op = "callback" /\ task[u].pc = "cb_save" /\ task[u].sid # FirstSid
      /\ Unwrap(task[u].session).did = Unwrap(task[t].session).did
      /\ OAuthSessionKey(FirstSid) \in task[t].touched

\* C5: when two get_valid_session calls on one session id have both refreshed
\* and finished, the stored GatewaySession and OAuthSessionRecord hold the tokens
\* of the latest grant the Authorization Server issued for that session.
C5_LatestGrantWins ==
    \A s \in SessionIds :
      (\A t \in Tasks : /\ task[t].pc = "done" /\ task[t].op = "session"
                        /\ task[t].sid = s /\ task[t].refreshed /\ task[t].status = 200)
        => /\ IsSome(redis[CatbirdSessionKey(s)])
           /\ IsSome(redis[OAuthSessionKey(s)])
           /\ Unwrap(redis[CatbirdSessionKey(s)]).access_token = asLatest[s]
           /\ Unwrap(redis[CatbirdSessionKey(s)]).refresh_token = asLatest[s]
           /\ Unwrap(redis[OAuthSessionKey(s)]).token_set.access_token = asLatest[s]
           /\ Unwrap(redis[OAuthSessionKey(s)]).token_set.refresh_token = Some(asLatest[s])

\* C6: of two overlapping GET /auth/session requests on one session id, it never
\* happens that one has refreshed successfully while the other was answered
\* invalid_grant and clears, or has cleared, the session.
C6_NoCallerLosesSession ==
    \A t, u \in Tasks :
      ~ /\ t # u
        /\ task[t].op = "session" /\ task[u].op = "session"
        /\ task[t].sid = task[u].sid
        /\ task[t].refreshed
        /\ \/ task[u].pc \in ClearPcs
           \/ task[u].pc = "done" /\ task[u].error = "TokenRefresh"

\* C7: proxy_request takes the retry branch exactly when attempt 1 answered 401
\* with a JSON body whose error is use_dpop_nonce and a DPoP-Nonce header with a
\* string value n; attempt 2 carries the same method and body and a DPoP proof
\* with nonce n; otherwise attempt 1's response is returned, buffered; what
\* attempt 2 brings is returned, and at most two requests are sent.
C7_ProxyNonceRetry ==
    /\ Len(px.sent) <= 2
    /\ Len(px.sent) >= 1 => px.sent[1].headers.proof # None
                            /\ Unwrap(px.sent[1].headers.proof).nonce = None
    /\ IsSome(px.first) =>
         LET r == Unwrap(px.first)
         IN px.retried <=> /\ r.status = 401
                           /\ r.is_json /\ r.error = "use_dpop_nonce"
                           /\ IsSome(r.dpop_nonce) /\ Unwrap(r.dpop_nonce).ascii
    /\ px.retried => IsSome(px.first)
    /\ Len(px.sent) = 2 =>
         /\ px.retried
         /\ px.sent[2].body = px.sent[1].body
         /\ px.sent[2].method = px.sent[1].method
         /\ IsSome(px.sent[2].headers.proof)
         /\ Unwrap(px.sent[2].headers.proof).nonce
              = Some(Unwrap(Unwrap(px.first).dpop_nonce).value)
    /\ (px.pc = "done" /\ IsSome(px.first) /\ ~px.retried) =>
         /\ Len(px.sent) = 1
         /\ Unwrap(px.result) = ProxyOk("Buffered", 1, Unwrap(px.first))
    /\ (px.pc = "done" /\ px.retried) => Unwrap(px.result).attempt = 2
    /\ px.pc = "attempt2" <=> (px.retried /\ px.result = None)

\* C7 witness: attempt 2 was answered by another use_dpop_nonce challenge, and
\* that 401 is what proxy_request returned.
C7_Witness ==
    /\ px.pc = "done" /\ px.retried /\ Len(px.sent) = 2
    /\ IsSome(px.sent[2].body)
    /\ Unwrap(px.result).kind = "Buffered" /\ Unwrap(px.result).status = 401

RefreshPostPcs == {"rf_post1", "rf_post2", "rf_write", "clr_session"}

\* C8: a refresh sends at most two POSTs; the first proof has no nonce; the
\* second is sent only after the first answered 400 or 401 with a DPoP-Nonce
\* header, and carries that nonce, another jti and the same refresh token; after
\* the second the refresh is past its POSTs.
C8_RefreshAtMostOneRetry ==
    \A t \in Tasks :
      task[t].pc \in RefreshPostPcs =>
        LET posts == task[t].posts
        IN /\ Len(posts) <= 2
           /\ task[t].pc = "rf_post1" => posts = <<>>
           /\ Len(posts) >= 1 => posts[1].nonce = None
           /\ task[t].pc = "rf_post2" => Len(posts) = 1
           /\ (Len(posts) = 2 \/ task[t].pc = "rf_post2") =>
                /\ posts[1].status \in {400, 401}
                /\ IsSome(posts[1].resp_nonce)
           /\ Len(posts) = 2 =>
                /\ posts[2].nonce = posts[1].resp_nonce
                /\ posts[2].jti # posts[1].jti
                /\ posts[2].token = posts[1].token
                /\ task[t].pc \in {"rf_write", "clr_session"}

\* C8 witness: the first POST was challenged, the second brought the grant.
C8_Witness ==
    \E t \in Tasks :
      /\ task[t].pc = "rf_write" /\ Len(task[t].posts) = 2
      /\ task[t].posts[1].status = 400 /\ task[t].posts[2].status = 200

\* C9: the step that completes a successful refresh keeps id, did and
\* created_at, sets access_token and access_token_expires_at from the grant and
\* last_used_at to the current instant, takes the refresh token the response
\* carries or else keeps the session's previous one, and writes the same tokens
\* to oauth_session:{id}.
C9_RefreshFrame ==
    [][\A t \in Tasks :
         (task[t].pc = "rf_write" /\ task'[t].pc = "gvs_save") =>
           LET old == Unwrap(task[t].stored)
               new == Unwrap(task'[t].session)
               g == Unwrap(task[t].grant)
               rec == redis'[OAuthSessionKey(old.id)]
           IN /\ task'[t].refreshed
              /\ new.id = old.id /\ new.did = old.did /\ new.created_at = old.created_at
              /\ new.handle = old.handle /\ new.pds_url = old.pds_url
              /\ new.access_token = g.access_token
              /\ new.access_token_expires_at = g.expires_at
              /\ new.last_used_at = now
              /\ new.refresh_token = IF IsSome(g.refresh_token) THEN Unwrap(g.refresh_token)
                                     ELSE old.refresh_token
              /\ IsSome(rec)
              /\ Unwrap(rec).token_set.access_token = new.access_token
              /\ Unwrap(rec).token_set.refresh_token = Some(new.refresh_token)
              /\ Unwrap(rec).token_set.expires_at = Some(new.access_token_expires_at)
              /\ \A k \in Keys \ {OAuthSessionKey(old.id)} : redis'[k] = redis[k]]_vars

\* C9 witness: a refresh whose response carried no refresh_token has returned,
\* a tick after the session was read: new access token, previous refresh token.
C9_Witness ==
    \E t \in Tasks :
      /\ task[t].pc = "gvs_save" /\ task[t].refreshed
      /\ Unwrap(task[t].grant).refresh_token = None
      /\ Unwrap(task[t].session).refresh_token = Unwrap(task[t].stored).refresh_token
      /\ Unwrap(task[t].session).access_token # Unwrap(task[t].stored).access_token
      /\ Unwrap(task[t].session).last_used_at > Unwrap(task[t].stored).last_used_at

\* C10: get_valid_session enters the refresh exactly when, at the instant it read
\* the session, now + 60 >= access_token_expires_at or the stored pds_url is
\* empty; otherwise it has sent nothing to the Authorization Server and the
\* session it saves and returns carries the stored tokens.
C10_RefreshTrigger ==
    \A t \in Tasks :
      (/\ task[t].pc \in {"rf_load", "rf_post1", "rf_post2", "rf_write", "gvs_save"}
       /\ ~task[t].refreshed) =>
        LET stored == Unwrap(task[t].stored)
            session == Unwrap(task[t].session)
            at == session.last_used_at
            due == \/ at + 60 >= stored.access_token_expires_at
                   \/ stored.pds_url = EmptyUrl
        IN /\ task[t].pc # "gvs_save" <=> due
           /\ task[t].pc = "gvs_save" =>
                /\ task[t].gets = 0 /\ task[t].posts = <<>>
                /\ session.access_token = stored.access_token
                /\ session.refresh_token = stored.refresh_token
                /\ session.access_token_expires_at = stored.access_token_expires_at

\* C10 witness: a session read exactly 60 s before its token expires is being
\* refreshed.
C10_Witness ==
    \E t \in Tasks :
      /\ task[t].pc = "rf_load"
      /\ Unwrap(task[t].session).last_used_at + 60
           = Unwrap(task[t].stored).access_token_expires_at
      /\ Unwrap(task[t].stored).pds_url # EmptyUrl

\* C11: for a session whose pds_url the SSRF validator rejects, proxy_request
\* has sent no request to any upstream at any point of the call, and what it
\* returns is BadRequest, answered with HTTP 400.
C11_SsrfRejectedBeforeEgress ==
    (IsSome(px.session)
       /\ ~validate_pds_url_in(debug_assertions, Unwrap(px.session).pds_url)) =>
      /\ px.sent = <<>>
      /\ px.pc \in {"validate", "done"}
      /\ px.pc = "done" =>
           /\ Unwrap(px.result) = ProxyErr("BadRequest", 0)
           /\ into_response_status(Unwrap(px.result).error) = 400

\* C11 witness: a call for a session whose pds_url is http://169.254.169.254
\* has returned.
C11_Witness ==
    /\ px.pc = "done"
    /\ Unwrap(px.session).pds_url = MetadataIpUrl
    /\ Unwrap(px.result).error = "BadRequest"
    /\ px.sent = <<>>

\* C12: a request on the refresh or the revoke path has sent a metadata GET or
\* a POST to the discovered endpoint only for a session whose pds_url passed
\* the SSRF validator; for a pds_url the validator rejects nothing is sent.
C12_MetadataSsrfGuarded ==
    \A t \in Tasks :
      (IsSome(task[t].session) /\ (task[t].gets > 0 \/ task[t].posts # <<>>))
        => validate_pds_url_in(debug_assertions, Unwrap(task[t].session).pds_url)

\* C13: proxy_request hands its caller no upstream body of more than 50 MiB:
\* a final response whose Content-Length exceeds 50 MiB gives ResponseTooLarge
\* with no chunk of the body read, and one whose body exceeds 50 MiB gives
\* ResponseTooLarge at the first chunk that crosses the limit, with or without
\* a Content-Length and whether it would be returned Buffered or Streaming.
C13_ResponseCap ==
    (px.pc = "done" /\ IsSome(px.final)) =>
      LET r == Unwrap(px.final)
          result == Unwrap(px.result)
      IN /\ too_large_by_header(r) =>
              result.error = "ResponseTooLarge" /\ px.taken = 0
         /\ body_len(r) > MAX_RESPONSE_SIZE =>
              /\ result.error = "ResponseTooLarge"
              /\ ~too_large_by_header(r) =>
                   /\ px.taken >= 1
                   /\ SumChunks(SubSeq(r.chunks, 1, px.taken)) > MAX_RESPONSE_SIZE
                   /\ SumChunks(SubSeq(r.chunks, 1, px.taken - 1)) <= MAX_RESPONSE_SIZE
         /\ result.kind \in {"Buffered", "Streaming"} => body_len(r) <= MAX_RESPONSE_SIZE

\* C14: the response proxy_request returns (attempt 1's when there was no
\* retry, attempt 2's otherwise) is Streaming exactly when its Content-Length
\* exceeds 1 MiB or its Content-Type is not application/json, and Buffered
\* otherwise.
C14_StreamingDecision ==
    (px.pc = "done" /\ IsSome(px.final)
       /\ Unwrap(px.result).kind \in {"Buffered", "Streaming"}) =>
      LET r == Unwrap(px.final)
      IN Unwrap(px.result).kind = "Streaming"
           <=> \/ (IsSome(r.content_length) /\ Unwrap(r.content_length) > 1048576)
               \/ ~r.content_type_json

\* The fixed window of key k after the first i checks of a log, as the
\* configuration (N, W) defines it: the first check of the key, and every check
\* of the key that arrives W or more after the window's first request, opens a
\* window; n counts the checks of the key in the window.
RECURSIVE RefWindow(_, _, _)
RefWindow(log, k, i) ==
    IF i = 0 THEN None
    ELSE LET w == RefWindow(log, k, i - 1)
             e == log[i]
         IN IF e.key # k THEN w
            ELSE IF w = None \/ e.at - Unwrap(w).first >= rl.config.window
            THEN Some([first |-> e.at, n |-> 1])
            ELSE Some([first |-> Unwrap(w).first, n |-> Unwrap(w).n + 1])

\* C15: for every key and configuration (N, W), the first N checks inside a
\* window are admitted, the (N+1)th check within W of the window's first request
\* is rejected with retry_after in [1, W], and a check arriving W or more after
\* the window's first request is admitted.
C15_FixedWindowLimit ==
    \A i \in 1..Len(rl.log) :
      LET e == rl.log[i]
          w == Unwrap(RefWindow(rl.log, e.key, i))
      IN /\ w.n <= rl.config.max_requests => e.ok
         /\ w.n = rl.config.max_requests + 1 =>
              /\ ~e.ok
              /\ e.value >= 1 /\ e.value * 1000 <= rl.config.window

\* C16: the window of a key is fixed: the entry's window_start is the instant of
\* the request that opened the key's current window and moves only with a check
\* arriving at or after window_start + W, which restarts the count; a rejected
\* check changes neither count nor window_start.
C16_WindowsAreFixed ==
    \A k \in RlKeys :
      rl.entries[k] # None =>
        LET entry == Unwrap(rl.entries[k])
            w == Unwrap(RefWindow(rl.log, k, Len(rl.log)))
        IN /\ entry.window_start = w.first
           /\ entry.count = IF w.n <= rl.config.max_requests THEN w.n
                             ELSE rl.config.max_requests

\* C17: rate-limiter keys are independent: a check on key A leaves the entry of
\* every other key as it was, and its answer (admit or reject, remaining,
\* retry_after) is that of check on A's own entry, which only checks on A have
\* written; exhausting A never makes a check on another key B rejected.
C17_KeysIndependent ==
    [][Len(rl'.log) = Len(rl.log) + 1 =>
         LET e == rl'.log[Len(rl'.log)]
             c == check(rl.entries[e.key], rl.now, rl.config)
         IN /\ \A b \in RlKeys \ {e.key} : rl'.entries[b] = rl.entries[b]
            /\ e.ok = c.ok /\ e.value = c.value
            /\ rl'.entries[e.key] = Some(c.entry)
            /\ rl.entries[e.key] = None => e.ok]_vars

\* C17 witness: key_a is exhausted and was rejected, and the first check on
\* key_b, at the same instant, was admitted.
C17_Witness ==
    /\ Len(rl.log) = 3
    /\ rl.log[1].key = "key_a" /\ rl.log[2].key = "key_a" /\ ~rl.log[2].ok
    /\ rl.log[3].key = "key_b" /\ rl.log[3].ok /\ rl.log[3].at = rl.log[2].at
    /\ rl.log[3].value = rl.config.max_requests - 1

\* C18: a cleanup evicts exactly the entries whose window started more than
\* twice the configured window length ago, and never an entry whose window is
\* still open.
C18_CleanupEvictsOnlyExpired ==
    [][rl'.next_cleanup # rl.next_cleanup =>
         \A k \in RlKeys :
           rl.entries[k] # None =>
             LET age == rl.now - Unwrap(rl.entries[k]).window_start
             IN /\ rl'.entries[k] = None <=> age > 2 * rl.config.window
                /\ rl'.entries[k] = None => age >= rl.config.window]_vars

\* C19: auth_middleware runs the handler exactly when get_valid_session
\* succeeded for the extracted session id, with the session it returned
\* attached; on a missing id, an unknown id or any failure of get_valid_session
\* it answers 401 and the handler does not run.  optional_auth_middleware always
\* runs the handler and attaches a session only when get_valid_session succeeded.
C19_MiddlewareGate ==
    \A t \in Tasks :
      LET r == task[t]
          failed == r.error # "" \/ r.sid = MissingId
          saved == redis[CatbirdSessionKey(r.sid)]
      IN /\ r.op = "protected" =>
              /\ r.ran => /\ ~failed
                          /\ r.pc \in {"handler", "done"}
              /\ r.pc = "handler" =>
                   /\ r.ran /\ IsSome(r.attached)
                   /\ r.attached = saved /\ Unwrap(r.attached).id = r.sid
                   /\ CatbirdSessionKey(r.sid) \in r.touched
              /\ r.pc = "done" =>
                   /\ failed <=> ~r.ran
                   /\ failed <=> r.status = 401
         /\ r.op = "optional" =>
              /\ r.pc \in {"handler", "done"} <=> r.ran
              /\ r.pc = "done" => r.status = 200
              /\ r.pc = "handler" =>
                   /\ IsSome(r.attached) <=> ~failed
                   /\ IsSome(r.attached) =>
                        r.attached = saved /\ Unwrap(r.attached).id = r.sid

\* C19 witness: a request behind auth_middleware whose refresh was answered
\* invalid_grant has been answered 401 without its handler.
C19_Witness ==
    \E t \in Tasks :
      /\ task[t].op = "protected" /\ task[t].pc = "done"
      /\ task[t].error = "TokenRefresh" /\ task[t].status = 401 /\ ~task[t].ran

\* C19, the soft variant: the handler behind optional_auth_middleware runs with
\* no session attached after an unknown session id.
C19_WitnessOptional ==
    \E t \in Tasks :
      /\ task[t].op = "optional" /\ task[t].pc = "handler"
      /\ task[t].error = "InvalidSession" /\ task[t].attached = None

CallbackPcs == {"cb_read", "cb_dpop", "cb_oauth", "cb_save"}

\* C20: the step on which oauth_callback succeeds with session id S leaves
\* dpop_key:S, oauth_session:S and catbird_session:S in place, the last with the
\* did that is the subject of the issued token set; the GatewaySession is
\* written last, so while the callback runs, and after it has failed,
\* catbird_session:S is not present without the other two.
C20_CallbackWritesAllThree ==
    [][\A t \in Tasks :
         /\ (task[t].pc = "cb_save" /\ task'[t].pc = "done" /\ task'[t].status = 302) =>
              LET S == task'[t].sid
                  issued == Unwrap(task[t].oauth).token_set
              IN /\ \A k \in PerSessionKeys(S) : redis'[k] # None
                 /\ Unwrap(redis'[CatbirdSessionKey(S)]).id = S
                 /\ Unwrap(redis'[CatbirdSessionKey(S)]).did = issued.sub
                 /\ Unwrap(redis'[OAuthSessionKey(S)]).token_set = issued
         /\ (/\ task'[t].op = "callback"
             /\ \/ task'[t].pc \in CallbackPcs
                \/ task'[t].pc = "done" /\ task'[t].status # 302 /\ task[t].pc \in CallbackPcs) =>
              LET S == task'[t].sid
              IN /\ redis'[CatbirdSessionKey(S)] = None
                 /\ task'[t].pc = "cb_save" =>
                      redis'[DpopKeyKey(S)] # None /\ redis'[OAuthSessionKey(S)] # None]_vars

\* C20 witness: a callback has answered 302 and the three records of its
\* session id are in Redis, the GatewaySession with the token set's subject.
C20_Witness ==
    \E t \in Tasks :
      /\ task[t].op = "callback" /\ task[t].pc = "done" /\ task[t].status = 302
      /\ \A k \in PerSessionKeys(task[t].sid) : redis[k] # None
      /\ Unwrap(redis[CatbirdSessionKey(task[t].sid)]).did
           = Unwrap(redis[OAuthSessionKey(task[t].sid)]).token_set.sub

\* C20, a failed callback: SET oauth_session failed after dpop_key:S was
\* written; no GatewaySession exists for S.
C20_WitnessFailed ==
    \E t \in Tasks :
      /\ task[t].op = "callback" /\ task[t].pc = "done" /\ task[t].error = "Redis"
      /\ redis[DpopKeyKey(task[t].sid)] # None
      /\ redis[OAuthSessionKey(task[t].sid)] = None
      /\ redis[CatbirdSessionKey(task[t].sid)] = None

\* C21: from the callback on, while catbird_session:S exists, dpop_key:S
\* exists and holds the key pair the callback wrote, also across Redis expiry:
\* the three per-session records share one expiry.
C21_DpopKeyOutlivesSession ==
    (ttl.pc = "live" /\ live(ttl, "catbird_session")) =>
      /\ live(ttl, "dpop_key")
      /\ ttl.dpop = Some(1)
      /\ \A k \in RecordKinds : ttl.deadline[k] = ttl.deadline["catbird_session"]

\* C22: a DPoP proof sent to the Authorization Server (refresh, revocation)
\* has no ath claim; a DPoP proof sent to the PDS has ath = the digest of the
\* access token in the Authorization header of the same request, on the first
\* attempt, on the nonce retry and on the first request after a refresh.
C22_AthBindsAccessToken ==
    /\ \A t \in Tasks : \A i \in DOMAIN task[t].posts : task[t].posts[i].ath = None
    /\ \A i \in DOMAIN px.sent :
         LET h == px.sent[i].headers
         IN IsSome(h.proof) =>
              /\ h.scheme = "DPoP"
              /\ Unwrap(h.proof).ath = Some(sha256_b64url(h.token))
              /\ h.token = Unwrap(px.session).access_token

\* The request refreshed its tokens and was proxied with a nonce retry: both
\* attempts carry the refreshed access token
C22_Witness ==
    /\ task[1].pc = "proxy" /\ task[1].refreshed
    /\ Len(px.sent) = 2
    /\ IsSome(px.sent[2].headers.proof)
    /\ px.sent[2].headers.token # FirstTokenSet.access_token
    /\ Unwrap(px.sent[2].headers.proof).ath = Some(sha256_b64url(px.sent[2].headers.token))

C24_ErrorMapping ==
    ev.pc = "responded" =>
      LET e == ev.error
          r == ev.response
      IN /\ e.kind \in {"InvalidSession", "SessionExpired", "TokenRefresh"} => r.status = 401
         /\ e.kind \in {"BadRequest", "OAuth"} => r.status = 400
         /\ e.kind = "Upstream" =>
              r.status = (IF IsSome(from_u16(e.status)) THEN e.status ELSE 502)
         /\ e.kind \in {"Redis", "HttpClient", "Json", "Config", "Crypto", "Internal"} =>
              r.status = 500 /\ r.message # e.msg

\* C26: proxy_xrpc takes the MLS route exactly when the lexicon begins with
\* "blue.catbird.mls." and mls.service_url and mls.gateway_did are both
\* configured, and the PDS route otherwise; a request is sent on one route
\* only; a request to the MLS service carries "Authorization: Bearer <service
\* token>" and no DPoP header.
C26_MlsRouting ==
    px.route # "" =>
      LET prefix == <<"blue", ".", "catbird", ".", "mls", ".">>
          mls_case == /\ Len(px.lexicon) >= 6
                      /\ \A i \in 1..6 : px.lexicon[i] = prefix[i]
                      /\ px.mls.service_url # None /\ px.mls.gateway_did # None
      IN /\ px.route = (IF mls_case THEN "mls" ELSE "pds")
         /\ \A i \in DOMAIN px.sent : px.sent[i].target = px.route
         /\ px.route = "mls" =>
              \A i \in DOMAIN px.sent :
                 LET r == px.sent[i]
                 IN /\ r.headers.scheme = "Bearer"
                    /\ r.headers.token.sub = Unwrap(px.session).did
                    /\ r.headers.token.lxm = px.lexicon
                    /\ r.headers.proof = None
                    /\ "dpop" \notin r.names.own \cup r.names.client

\* An MLS lexicon with the MLS service configured: the request went to it
C26_Witness ==
    /\ px.route = "mls" /\ Len(px.sent) = 1 /\ px.sent[1].target = "mls"
    /\ "dpop" \in px.client_headers

\* An MLS lexicon without gateway_did: the PDS route, with its nonce retry
C26_WitnessPds ==
    /\ px.route = "pds" /\ is_mls_lexicon(px.lexicon) /\ px.mls.gateway_did = None
    /\ Len(px.sent) = 2 /\ px.sent[2].target = "pds"

\* The steps of refresh_session_tokens before it has an answer to act on
RefreshPcs == {"rf_load", "rf_post1", "rf_post2"}

\* C25: a refresh answered invalid_grant is the only upstream failure that
\* changes the stored records: the session is cleared only after a refusal
\* whose body says invalid_grant, every other failure of a refresh ends the
\* request with the records as they were, and no step of a proxied PDS or MLS
\* request, failed or not, changes a record.
C25_OnlyInvalidGrantChangesRecords ==
    /\ [](\A t \in Tasks :
            /\ task[t].pc = "clr_session" =>
                 LET last == task[t].posts[Len(task[t].posts)]
                 IN /\ ~(last.status >= 200 /\ last.status <= 299)
                    /\ last.text \in {"invalid_grant", "InvalidGrant"}
            /\ task[t].pc = "rf_write" =>
                 task[t].posts[Len(task[t].posts)].status = 200)
    /\ [][/\ \A t \in Tasks :
              (task[t].pc \in RefreshPcs
                 /\ task'[t].pc \notin RefreshPcs \cup {"rf_write", "clr_session"}) =>
                (task'[t].error # "" /\ redis' = redis)
          /\ px' # px => redis' = redis
          /\ redis' # redis =>
                \E t \in Tasks :
                   task[t].pc \in {"gvs_save", "rf_write", "clr_session", "clr_dpop",
                                   "clr_oauth"}]_vars

\* A refresh was refused with something other than invalid_grant and the
\* request failed; the records are those the login left
C25_Witness ==
    /\ task[1].pc \in {"done", "handler"} /\ task[1].error = "OAuth"
    /\ redis = InitialRedis

\* The PDS failed a proxied request after the nonce retry
C25_WitnessProxy ==
    /\ px.pc = "done" /\ Len(px.sent) = 2 /\ Unwrap(px.result).kind = "Err"

\* The MLS service failed a proxied request
C25_WitnessMls ==
    /\ px.pc = "done" /\ px.route = "mls" /\ Len(px.sent) = 1
    /\ Unwrap(px.result).error = "Internal"

\* C27: clear_session_data and logout's cleanup succeed whichever of the three
\* keys of the session are missing; they leave the keys they delete absent
\* and every record of another session as it was; running them twice leaves
\* the store as running them once.
C27_CleanupIdempotent ==
    ev.pc \in {"once", "twice"} =>
      LET deleted == IF ev.op = "clear_session_data" THEN PerSessionKeys(ev.sid)
                     ELSE {DpopKeyKey(ev.sid), OAuthSessionKey(ev.sid)}
      IN /\ ev.once.ok
         /\ \A k \in deleted : ev.once.store[k] = None
         /\ \A k \in Keys \ deleted : ev.once.store[k] = ev.store[k]
         /\ ev.pc = "twice" => ev.twice.ok /\ ev.twice.store = ev.once.store

\* clear_session_data ran twice on a store that held the session's DPoP key
\* but not its other two records, next to a full other session
C27_Witness ==
    /\ ev.pc = "twice" /\ ev.op = "clear_session_data" /\ ev.sid = FirstSid
    /\ ev.store[DpopKeyKey(FirstSid)] # None
    /\ ev.store[CatbirdSessionKey(FirstSid)] = None
    /\ ev.store[OAuthSessionKey(FirstSid)] = None
    /\ \A k \in PerSessionKeys(LegacySid) : ev.store[k] # None /\ ev.twice.store[k] # None

\* logout's cleanup ran twice with all three keys missing
C27_WitnessLogout ==
    /\ ev.pc = "twice" /\ ev.op = "logout"
    /\ \A k \in PerSessionKeys(ev.sid) : ev.store[k] = None
    /\ ev.twice.ok

\* The address spaces of the SSRF rules, by their prefixes: the first 16 bits
\* of an IPv4 address are hi, its third octet is o[3]
Restricted4(o) ==
    LET hi == o[1] * 256 + o[2]
    IN \/ hi \div 256 = 127                                \* 127.0.0.0/8
       \/ hi \div 256 = 10                                 \* 10.0.0.0/8
       \/ hi \div 16 = (172 * 256 + 16) \div 16            \* 172.16.0.0/12
       \/ hi = 192 * 256 + 168                             \* 192.168.0.0/16
       \/ hi = 169 * 256 + 254                             \* 169.254.0.0/16
       \/ hi \div 64 = (100 * 256 + 64) \div 64            \* 100.64.0.0/10
       \/ (hi = 192 * 256 /\ o[3] = 2)                     \* 192.0.2.0/24
       \/ (hi = 198 * 256 + 51 /\ o[3] = 100)              \* 198.51.100.0/24
       \/ (hi = 203 * 256 /\ o[3] = 113)                   \* 203.0.113.0/24
       \/ o = <<255, 255, 255, 255>>
       \/ o = <<0, 0, 0, 0>>

Mapped4(s) == <<s[7] \div 256, s[7] % 256, s[8] \div 256, s[8] % 256>>
IsMapped(s) == SubSeq(s, 1, 6) = <<0, 0, 0, 0, 0, 65535>>

Restricted6(s) ==
    \/ s \in {<<0, 0, 0, 0, 0, 0, 0, 1>>, <<0, 0, 0, 0, 0, 0, 0, 0>>}
    \/ (s[1] >= 64512 /\ s[1] <= 65023)                    \* fc00::/7
    \/ (s[1] >= 65152 /\ s[1] <= 65215)                    \* fe80::/10
    \/ (IsMapped(s) /\ Restricted4(Mapped4(s)))

PublicUnicast4(o) == o[1] >= 1 /\ o[1] <= 223 /\ ~Restricted4(o)
PublicUnicast6(s) ==
    \/ (s[1] >= 8192 /\ s[1] <= 16383)                     \* 2000::/3
    \/ (IsMapped(s) /\ PublicUnicast4(Mapped4(s)))

\* C28: validate_pds_url rejects, under every scheme and in either build, a
\* URL whose host is an IP literal in loopback, RFC1918, link-local,
\* unique-local, unspecified, broadcast, carrier-grade NAT or TEST-NET space
\* or the IPv4-mapped IPv6 form of one, and accepts an https URL whose host is
\* a public unicast IP literal.
C28_IpLiterals ==
    ev.pc = "validated" =>
      LET h == ev.url.host
      IN /\ (h.kind = "ipv4" /\ Restricted4(h.octets)) => ~ev.ok
         /\ (h.kind = "ipv6" /\ Restricted6(h.segments)) => ~ev.ok
         /\ (ev.url.scheme = "https" /\ h.kind = "ipv4" /\ PublicUnicast4(h.octets)) => ev.ok
         /\ (ev.url.scheme = "https" /\ h.kind = "ipv6" /\ PublicUnicast6(h.segments))
               => ev.ok

\* https://100.64.0.1 was rejected; https://172.32.0.1 was accepted
C28_Witness ==
    /\ ev.pc = "validated" /\ ev.url = Url("https", Ipv4Host(100, 64, 0, 1)) /\ ~ev.ok

C28_WitnessAccepted ==
    /\ ev.pc = "validated" /\ ev.url = Url("https", Ipv4Host(172, 32, 0, 1)) /\ ev.ok

\* The localhost family: localhost, localhost.localdomain, *.localhost, *.local
LocalhostFamily(labels) ==
    \/ labels \in {<<"localhost">>, <<"localhost", "localdomain">>}
    \/ (Len(labels) > 1 /\ labels[Len(labels)] \in {"localhost", "local"})

\* C29: validate_pds_url rejects a URL that does not parse, has no host or has
\* a scheme other than https and http; it accepts an http URL only in a debug
\* build and only for a hostname of the localhost family; outside debug builds
\* it rejects those hostnames under every scheme.
C29_SchemeAndLocalhost ==
    ev.pc = "validated" =>
      LET u == ev.url
          family == u.host.kind = "domain" /\ LocalhostFamily(u.host.labels)
      IN /\ (~u.parses \/ u.host.kind = "none" \/ u.scheme \notin {"https", "http"}) => ~ev.ok
         /\ (ev.ok /\ u.scheme = "http") => (ev.debug /\ family)
         /\ (~ev.debug /\ family) => ~ev.ok

\* A release build rejected https://printer.local
C29_Witness ==
    /\ ev.pc = "validated" /\ ~ev.debug /\ ~ev.ok
    /\ ev.url = Url("https", DomainHost(<<"printer", "local">>))

\* A debug build accepted http://test.localhost
C29_WitnessDebug ==
    /\ ev.pc = "validated" /\ ev.debug /\ ev.ok
    /\ ev.url = Url("http", DomainHost(<<"test", "localhost">>))

\* C30: a request the per-session rate limiter rejects with 429 has caused no
\* upstream HTTP request: it has not been through a token refresh, which
\* fetches the Authorization Server's metadata and posts to its token endpoint.
C30_LimitBeforeUpstream ==
    \A t \in Tasks :
       (task[t].pc = "done" /\ task[t].status = 429) => ~task[t].refreshed

\* The checks of key k the limiter admitted in the window that started at ws
AdmittedSince(k, ws) ==
    Cardinality({i \in 1..Len(rl.log) : rl.log[i].key = k /\ rl.log[i].ok /\ rl.log[i].at >= ws})

\* C31: a request on an /xrpc route that proxy_request rejects for the session's
\* pds_url (400, BadRequest) was counted by the limiter before the validation
\* ran: while the handler runs and when it has answered, the last check is the
\* admitted check of this session's key and the key's counter includes it; no
\* step between the check and the answer changes a counter.
C31_RejectedRequestConsumesQuota ==
    /\ [](\A t \in Tasks :
            (\/ task[t].pc \in {"xrpc", "proxy"}
             \/ task[t].pc = "done" /\ task[t].status = 400 /\ task[t].error = "BadRequest") =>
              LET key == session_rate_limit_key(task[t].sid)
              IN /\ Len(rl.log) >= 1
                 /\ rl.log[Len(rl.log)].key = key /\ rl.log[Len(rl.log)].ok
                 /\ rl.entries[key] # None
                 /\ Unwrap(rl.entries[key]).count >= 1
                 /\ Unwrap(rl.entries[key]).count
                      = AdmittedSince(key, Unwrap(rl.entries[key]).window_start))
    /\ [][(\E t \in Tasks : task[t].pc \in {"xrpc", "proxy"}) =>
            (rl'.entries = rl.entries /\ rl'.log = rl.log)]_vars

\* The session a login bound to http://169.254.169.254 sent its first request:
\* it was answered 400 and used up the one request of its window
C31_Witness ==
    \E t \in Tasks :
      /\ task[t].pc = "done" /\ task[t].status = 400 /\ task[t].error = "BadRequest"
      /\ task[t].sid = FirstSid + 1
      /\ Unwrap(redis[CatbirdSessionKey(task[t].sid)]).pds_url = MetadataIpUrl
      /\ rl.config.max_requests = 1
      /\ Unwrap(rl.entries[session_rate_limit_key(task[t].sid)]).count = 1


\* C32: a refresh that finds oauth_session:{id} missing, or finds a record with
\* no refresh token, ends with AppError::OAuth before any metadata GET or POST,
\* and writes no record.
C32_NoRefreshTokenIsOAuthError ==
    [][\A t \in Tasks :
         (/\ task[t].pc = "rf_load"
          /\ task'[t].pc # "rf_load"
          /\ LET rec == redis[refresh_oauth_session_key(Unwrap(task[t].session))]
             IN rec = None \/ Unwrap(rec).token_set.refresh_token = None)
           => /\ task'[t].error = "OAuth"
              /\ task'[t].gets = 0 /\ task'[t].posts = <<>>
              /\ redis' = redis]_vars

\* C33: revoke_session sends one or two POSTs to the revocation endpoint; the
\* second is sent exactly when the first answer has status 400 or 401 and a
\* DPoP-Nonce header, and carries that nonce and a jti the first did not; both
\* name the refresh token when the session has one, else the access token.
C33_RevokeNonceRetry ==
    \A t \in Tasks :
      task[t].pc \in {"rv_post2", "rv_delete"} =>
        LET posts == task[t].posts
            session == Unwrap(task[t].session)
            challenged == posts[1].status \in {400, 401} /\ IsSome(posts[1].resp_nonce)
        IN /\ Len(posts) \in 1..2
           /\ (task[t].pc = "rv_post2" \/ Len(posts) = 2) <=> challenged
           /\ Len(posts) = 2 => /\ posts[2].nonce = posts[1].resp_nonce
                                /\ posts[2].jti # posts[1].jti
           /\ \A i \in 1..Len(posts) :
                posts[i].token = IF session.refresh_token # EmptyString
                                 THEN session.refresh_token ELSE session.access_token

\* C34: a refresh repairs a record saved without pds_url.  A refresh that holds
\* a refresh token for its session can go on to the token endpoint also when the
\* session's pds_url is empty, and once a refresh has succeeded and
\* get_valid_session has returned, the stored catbird_session:{id} has a
\* pds_url that is not empty.
C34_RefreshRepairsPdsUrl ==
    \A t \in Tasks :
      /\ (/\ task[t].pc = "rf_load"
          /\ LET rec == redis[refresh_oauth_session_key(Unwrap(task[t].session))]
             IN IsSome(rec) /\ IsSome(Unwrap(rec).token_set.refresh_token))
           => ENABLED (RfLoad(t) /\ task'[t].pc = "rf_post1")
      /\ (/\ task[t].refreshed
          /\ task[t].pc \in {"handler", "done"}
          /\ IsSome(redis[CatbirdSessionKey(task[t].sid)]))
           => Unwrap(redis[CatbirdSessionKey(task[t].sid)]).pds_url # EmptyUrl

\* C35: a service token minted for an MLS request has sub = the session's did,
\* lxm = the lexicon asked for and exp = iat + 120; its header's kid is the kid
\* of a key in the JWKS the gateway serves at that moment, the signature is
\* made with that key, and with a key store that key is the store's active key.
C35_ServiceTokenClaimsAndKey ==
    (ev.pc = "minted" /\ ev.token.kind = "Ok") =>
      LET jwt == ev.token.jwt
      IN /\ jwt.claims.sub = ev.session.did
         /\ jwt.claims.lxm = ev.lexicon
         /\ jwt.claims.iat = ev.t
         /\ jwt.claims.exp = jwt.claims.iat + 120
         /\ jwt.signature.input = <<jwt.header, jwt.claims>>
         /\ \E jwk \in ev.jwks : /\ jwk.kid = jwt.header.kid
                                 /\ jwk.public = public_key(jwt.signature.key)
         /\ \A jwk \in ev.jwks : jwk.kid = jwt.header.kid
                                   => jwk.public = public_key(jwt.signature.key)
         /\ IsSome(ev.state.key_store) =>
              LET ks == Unwrap(ev.state.key_store)
              IN /\ jwt.header.kid = ks.active_key_id
                 /\ jwt.signature.key = ks.keys[ks.active_key_id]

\* A key store of two keys whose active key is not the first path's: the token
\* is signed with the active one
C35_Witness ==
    /\ ev.pc = "minted" /\ ev.token.kind = "Ok"
    /\ IsSome(ev.state.key_store)
    /\ Cardinality(ev.jwks) = 2
    /\ ev.token.jwt.header.kid = <<"catbird-", "key2">>
    /\ ev.token.jwt.signature.key = "s2"
    /\ ev.session.did = 2 /\ ev.session.handle = 1 /\ ev.token.jwt.claims.sub = 2
    /\ ev.t = TickSeconds /\ ev.token.jwt.claims.exp = TickSeconds + 120

\* The legacy key, without a key store
C35_WitnessLegacy ==
    /\ ev.pc = "minted" /\ ev.token.kind = "Ok"
    /\ ev.state.key_store = None
    /\ ev.token.jwt.header.kid = LegacyKid
    /\ ev.jwks # {}

\* C36: once a logout of session S has answered, or a refresh has ended its
\* invalid_grant cleanup of S, and no per-session record of S exists, no step of
\* a request still in flight brings a record of S back.
C36_DeletionIsFinal ==
    [][\A t \in Tasks :
         (/\ task[t].pc = "done"
          /\ \/ task[t].op = "logout" /\ task[t].status = 200
             \/ task[t].error = "TokenRefresh"
          /\ NoRecordOf(task[t].sid))
           => \A k \in PerSessionKeys(task[t].sid) : redis'[k] = None]_vars

\* The admitted checks of key k among log entries i..j
AdmittedIn(log, k, i, j) ==
    Cardinality({n \in i..j : log[n].key = k /\ log[n].ok})

\* C37: with checks and cleanups of several tasks interleaved, the stored count
\* of a key never exceeds max_requests, and between two checks that open a
\* window of the key (by inserting the entry or by resetting it) at most
\* max_requests checks of the key are admitted, the opening one included.
C37_ConcurrentChecksKeepLimit ==
    ev.pc = "limiter" =>
      /\ \A k \in RlKeys :
           IsSome(rl.entries[k]) => Unwrap(rl.entries[k]).count <= rl.config.max_requests
      /\ \A i \in 1..Len(rl.log) : \A j \in i..Len(rl.log) :
           (\A n \in (i + 1)..j : rl.log[n].key = rl.log[i].key => ~rl.log[n].opened)
             => AdmittedIn(rl.log, rl.log[i].key, i, j) <= rl.config.max_requests

\* Two checks of one key that read the clock at the same instant, before either
\* had the lock: the first is admitted and uses the window up, the second is
\* rejected
C37_Witness ==
    /\ ev.pc = "limiter"
    /\ rl.config.max_requests = 1
    /\ Len(rl.log) = 2
    /\ rl.log[1].key = rl.log[2].key /\ rl.log[1].at = rl.log[2].at
    /\ rl.log[1].ok /\ ~rl.log[2].ok
    /\ rl.log[1].opened /\ ~rl.log[2].opened

\* A check that read the clock before the cleanup evicted its key's entry and
\* before a later check opened a new window: it is counted in that window
C37_WitnessStale ==
    /\ ev.pc = "limiter"
    /\ Len(rl.log) = 2
    /\ rl.log[1].opened /\ rl.log[2].key = rl.log[1].key
    /\ rl.log[2].at < rl.log[1].at /\ ~rl.log[2].opened
    /\ rl.log[1].at = CleanupInterval

\* What the requests to the PDS and to the MLS service carry: the access token
\* (with its DPoP proof) goes to the session's validated pds_url, and a request
\* to the MLS service carries the service token as a Bearer, no DPoP proof and
\* no header of the gateway's other than Authorization and Content-Type
ProxiedRequestsOnChannel ==
    \A i \in 1..Len(px.sent) :
      LET r == px.sent[i]
          session == Unwrap(px.session)
      IN /\ r.target = "pds" => /\ r.headers.token = session.access_token
                                /\ validate_pds_url(session.pds_url)
                                /\ px.route = "pds"
         /\ r.target = "mls" =>
              /\ r.headers.scheme = "Bearer" /\ r.headers.proof = None
              /\ r.headers.token = generate_service_token(px.mls, session, px.lexicon)
              /\ r.names.own \subseteq {"authorization", "content-type"}
              /\ r.names.client = {}

\* The POSTs to the Authorization Server a task has sent that carry the access
\* token of its session (told apart from the refresh token when the two differ)
PostsWithAccessToken(t) ==
    {i \in 1..Len(task[t].posts) :
       LET session == Unwrap(task[t].session)
       IN /\ session.access_token # session.refresh_token
          /\ task[t].posts[i].token = session.access_token}

\* C38 as stated: the access token goes only to the session's pds_url, the
\* refresh token only to the token and revocation endpoints, and an MLS request
\* carries neither and no DPoP proof.
C38_CredentialsOnChannel ==
    /\ ProxiedRequestsOnChannel
    /\ \A t \in Tasks : PostsWithAccessToken(t) = {}

\* C38, amended: as above, except that revoke_session sends the access token to
\* the revocation endpoint when the session has no refresh token.
C38_CredentialsOnChannelButRevoke ==
    /\ ProxiedRequestsOnChannel
    /\ \A t \in Tasks :
         PostsWithAccessToken(t) # {} =>
           /\ task[t].pc \in {"rv_post2", "rv_delete"}
           /\ Unwrap(task[t].session).refresh_token = EmptyString
    /\ \A t \in Tasks : \A i \in 1..Len(task[t].posts) :
         /\ task[t].pc \in {"rf_post2", "rf_write", "clr_session"} =>
              Some(task[t].posts[i].token) = Unwrap(task[t].oauth).token_set.refresh_token
         /\ (task[t].pc \in {"rv_post2", "rv_delete"}
               /\ Unwrap(task[t].session).refresh_token # EmptyString) =>
              task[t].posts[i].token = Unwrap(task[t].session).refresh_token

\* A logout of a session whose login got no refresh token: the revocation
\* request names the access token
C38_Witness ==
    \E t \in Tasks :
      /\ task[t].pc = "rv_delete"
      /\ Unwrap(task[t].session).refresh_token = EmptyString
      /\ task[t].posts[1].token = Unwrap(task[t].session).access_token

\* A logout of a session whose refresh kept the refresh token: the two tokens
\* differ and the revocation request names the refresh token
C38_WitnessRefreshToken ==
    \E t \in Tasks :
      /\ task[t].pc = "rv_delete"
      /\ Unwrap(task[t].session).refresh_token \notin {EmptyString, Unwrap(task[t].session).access_token}
      /\ task[t].posts[1].token = Unwrap(task[t].session).refresh_token

\* A request to the MLS service and one to the PDS
C38_WitnessMls ==
    px.pc = "done" /\ Len(px.sent) = 1 /\ px.sent[1].target = "mls"

C38_WitnessPds ==
    px.pc = "done" /\ Len(px.sent) = 2 /\ px.sent[2].target = "pds"

\* How far a request has come: every step of it moves it on
PhaseRank(pc) ==
    CASE pc = "extract" -> 1 [] pc = "gvs_get" -> 2 [] pc = "rf_load" -> 3
      [] pc = "rf_post1" -> 4 [] pc = "rf_post2" -> 5 [] pc = "rf_write" -> 6
      [] pc = "clr_session" -> 6 [] pc = "clr_dpop" -> 7 [] pc = "clr_oauth" -> 8
      [] pc = "gvs_save" -> 9 [] pc = "handler" -> 10 [] pc = "xrpc" -> 11
      [] pc = "proxy" -> 12 [] pc = "done" -> 20 [] OTHER -> 0

ProxyRank(pc) ==
    CASE pc = "validate" -> 1 [] pc = "mls" -> 1 [] pc = "attempt1" -> 2
      [] pc = "attempt2" -> 3 [] pc = "done" -> 4 [] OTHER -> 0

\* The upstream calls of the request in flight: at most two metadata GETs and two
\* POSTs to the token endpoint, then at most two requests to the PDS or at most
\* one to the MLS service
UpstreamCallsBounded ==
    \A t \in Tasks :
      /\ task[t].gets <= 2
      /\ Len(task[t].posts) <= 2
      /\ Len(px.sent) <= 2
      /\ px.route = "mls" => Len(px.sent) <= 1
      /\ \A i \in 1..Len(px.sent) : px.sent[i].target = px.route
      /\ px.sent # <<>> => task[t].posts = <<>>

\* No step of a request goes back: no loop, no retry beyond the two attempts
RequestMovesOn ==
    \A t \in Tasks :
      (task[t].pc \notin {"idle", "done"} /\ <<task[t], px>> # <<task'[t], px'>>)
        => \/ PhaseRank(task'[t].pc) > PhaseRank(task[t].pc)
           \/ /\ task[t].pc = "proxy" /\ task'[t].pc = "proxy"
              /\ ProxyRank(px'.pc) > ProxyRank(px.pc)

\* C39 as stated: every request to an /xrpc route that passed extraction is
\* answered, after at most two metadata GETs, two token POSTs and two requests
\* to the PDS, or exactly one request to the MLS service when it is routed
\* there, with no step repeated.
C39_XrpcRequestTerminates ==
    /\ [](UpstreamCallsBounded
           /\ ((px.route = "mls" /\ px.pc = "done") => Len(px.sent) = 1))
    /\ [][RequestMovesOn]_vars
    /\ (task[1].pc = "extract") ~> (task[1].pc = "done")

\* C39, amended: as above, with at most one request to the MLS service (none
\* when the service token cannot be signed).
C39_XrpcRequestTerminatesAtMostOneMls ==
    /\ []UpstreamCallsBounded
    /\ [][RequestMovesOn]_vars
    /\ (task[1].pc = "extract") ~> (task[1].pc = "done")

\* A request whose refresh took two POSTs and whose proxied call took two
\* requests to the PDS, about to be answered
C39_Witness ==
    /\ task[1].pc = "proxy" /\ task[1].refreshed
    /\ px.pc = "done" /\ px.route = "pds" /\ Len(px.sent) = 2

\* A request routed to the MLS service that ended before anything was sent
C39_WitnessNoMlsRequest ==
    /\ task[1].pc = "proxy"
    /\ px.pc = "done" /\ px.route = "mls" /\ px.sent = <<>>

\* A refresh in its second POST
C39_WitnessSecondPost ==
    task[1].op = "protected" /\ task[1].pc \in {"rf_write", "clr_session"}
      /\ Len(task[1].posts) = 2

\* C40: the save_session of a get_valid_session that made no refresh replaces
\* the stored catbird_session:{id} by a record that differs from it in
\* last_used_at only, and changes no other record.
C40_TouchOnlyLastUsedAt ==
    [][\A t \in Tasks :
         (task[t].pc = "gvs_save" /\ ~task[t].refreshed /\ task'[t].pc # "gvs_save")
           => LET session == Unwrap(task[t].session)
                  key == CatbirdSessionKey(session.id)
              IN /\ IsSome(redis[key])
                 /\ redis'[key] = Some([Unwrap(redis[key])
                                          EXCEPT !.last_used_at = session.last_used_at])
                 /\ \A k \in Keys \ {key} : redis'[k] = redis[k]]_vars

=============================================================================
